---------------------------- MODULE Spec2Model ----------------------------
(***************************************************************************)
(* clash-verge-service: the secured local IPC transport (SecureChannel),   *)
(* the per-session request loop and command dispatcher, and the supervised *)
(* core lifecycle (ClashStatus, run_core, start_clash, stop_clash).        *)
(*                                                                         *)
(* The specifications share the definitions below:                         *)
(*   Spec      the secure channel: handshake, frames, recv's checks, and   *)
(*             the read loop answering what it accepts;                    *)
(*   SpecDisp  the dispatcher: every command and payloads that do not      *)
(*             parse; a handler and an exit waiter each run as one step;   *)
(*   SpecSup   the supervisor alone, every lock acquisition of a handler   *)
(*             and of an exit waiter a step of its own;                    *)
(*   SpecLife  the supervisor under sequences of up to three StartClash,   *)
(*             StopClash and GetClash requests, with the socket file of    *)
(*             the core;                                                   *)
(*   SpecRespawn  SpecLife where the spawn of an exit waiter may fail;     *)
(*   SpecAccept  the listener: several connections, failing handshakes and *)
(*             accepts, SIGINT, and the end of the service;                *)
(*   SpecSlow  the listener with a peer that connects and sends nothing,   *)
(*             under weak fairness of the service's own steps;             *)
(*   SpecLog   the log ring: the cores write lines to their stdout, the    *)
(*             reader threads append them, GetLogs reads the ring;         *)
(*   SpecLocks the mutexes: every acquisition a step of its own;           *)
(*   SpecWire  send and recv on byte strings with their lengths;           *)
(*   SpecMirror  the stdout reader handing lines to wrap_mihomo_log.       *)
(***************************************************************************)
EXTENDS Integers, Sequences, FiniteSets, TLC

VARIABLES
    now,           \* wall clock, milliseconds since the epoch
    service,       \* run_service: "running" | "stopped"
    listener,      \* accept loop: 0 = waiting in incoming.next(), c = inside handshake_server of connection c, below 0 = ended on its own
    srv,           \* per connection, the server end: the SecureChannel and the read task
    cli,           \* per connection, the client end (Client in lib.rs)
    wire,          \* per connection, the frames the server has written and the client has not read
    hist,          \* per connection, what the read task did, in order (history)
    clash_status,  \* ClashStatus::global()
    procs,         \* the processes spawned by run_core, each with its exit waiter thread
    ring,          \* Logger::global(), the log ring
    logged,        \* the lines appended to the ring since it was last cleared (history)
    log_config,    \* LogConfig::global()
    files,         \* the socket files of the cores that exist in the file system
    life,          \* since the last reset of ClashStatus: what the exit waiters did (history)
    mutex,         \* SpecLocks: the thread that holds each mutex
    mirror,        \* the level of the last record a stdout reader wrote to the service logger (history)
    task           \* SpecSup: the request handlers in progress, one per session task

vars == <<now, service, listener, srv, cli, wire, hist,
          clash_status, procs, ring, logged, log_config, files, life, mutex, mirror, task>>

chanVars == <<service, listener, srv, cli, wire, hist>>
supVars  == <<clash_status, procs, ring, logged, log_config, files, life, mutex, mirror>>

-----------------------------------------------------------------------------
(* Bounds of the model *)

MaxConns == 1      \* connections a run accepts
MaxMsgId == 2      \* message ids a peer draws from: 1..MaxMsgId
MaxProcs == 3      \* processes and exit waiters alive at once
MaxTasks == 1      \* SpecSup: handlers running at once
MaxRespawns == 12  \* respawns the exit waiters make between two resets of the retry count
MaxRequests == 2   \* SpecSup: requests one session task hands to the dispatcher
MaxListen == 2     \* SpecAccept: connections the listener is offered
MaxLifeRequests == 3  \* SpecLife: requests one session task hands to the dispatcher
MaxLifeExits == 1  \* SpecLife: respawns in one lifetime after which the core no longer exits on its own
MaxLogLines == 2   \* SpecLog: the capacity N of the log ring, scaled down
MaxOut == 3        \* SpecLog: lines the cores alive at one time have written to their stdout
MaxWire == 2       \* SpecWire: frames written to a stream and not yet read
MaxLockTasks == 2  \* SpecLocks: sessions whose handlers run at once
MaxLockRequests == 1  \* SpecLocks, SpecMirror: requests one session task hands to the dispatcher

ConnIds == 1..MaxConns
Conns   == 1..MaxListen
MsgIds  == 1..MaxMsgId
ProcIds == 1..MaxProcs
TaskIds == 1..MaxTasks

-----------------------------------------------------------------------------
(* Program constants *)

DEFAULT_RETRY_COUNT == 10
\* INTERVAL_TIME is 60.0 seconds; the clock of the model counts milliseconds
INTERVAL_TIME == 60000
timestamp_window == 500
U8_MAX == 255
PSK == "verge-self-service-psk"
SERVICE_LABEL == "Clash Verge Self Service"
CARGO_PKG_VERSION == "<semver>"

\* Option<T>: None is the empty tuple, Some(x) the one-element tuple
None == <<>>
Some(x) == <<x>>
IsSome(o) == o # <<>>
Unwrap(o) == o[1]

-----------------------------------------------------------------------------
(* StartBody and the environment it is interpreted in *)

\* a path is its component list; abs marks a leading "/"
Path(abs, comps) == [abs |-> abs, comps |-> comps]

\* Path::parent: None for "" and for "/"
PathParent(p) ==
    IF p.comps = <<>> THEN None
    ELSE Some(Path(p.abs, SubSeq(p.comps, 1, Len(p.comps) - 1)))

\* Path::file_name: None for "", "/" and a path ending in ".."
PathFileName(p) ==
    IF p.comps = <<>> \/ p.comps[Len(p.comps)] = ".." THEN None
    ELSE Some(p.comps[Len(p.comps)])

LogOk    == Path(TRUE, <<"var", "log", "service.log">>)
LogEmpty == Path(FALSE, <<>>)
LogNoDir == Path(TRUE, <<"proc", "nodir", "service.log">>)

BinCore    == "/usr/bin/verge-mihomo"
BinOther   == "/opt/core/mihomo"
BinMissing == "/nonexistent/verge-mihomo"

StartBody(bin, logf, sock) ==
    [core_type |-> Some("verge-mihomo"), socket_path |-> sock, bin_path |-> bin,
     config_dir |-> "/etc/verge", config_file |-> "/etc/verge/config.yaml",
     log_file |-> logf]

BodyA       == StartBody(BinCore, LogOk, Some("/tmp/verge-mihomo.sock"))
BodyB       == StartBody(BinOther, LogOk, None)
BodyNoBin   == StartBody(BinMissing, LogOk, None)
BodyEmptyLog == StartBody(BinCore, LogEmpty, None)
BodyNoLogDir == StartBody(BinCore, LogNoDir, None)
Bodies == {BodyA, BodyB, BodyNoBin, BodyEmptyLog, BodyNoLogDir}

\* Command::spawn succeeds for the binaries that exist
Spawnable(bin) == bin \in {BinCore, BinOther}
\* sysinfo's processes_by_name("verge-mihomo"): the image name contains it
NameMatches(bin) == bin \in {BinCore, BinMissing}
\* FileAppender::build can create the log file under these directories
DirWritable(dir) == dir = Path(TRUE, <<"var", "log">>)

-----------------------------------------------------------------------------
(* The supervisor: ClashStatus, the spawned processes, the log ring.       *)
(* Each step below is one lock scope of handle.rs, as a function of the    *)
(* supervisor state S = [status, procs, ring, cfg, life, ok].  S.ok turns  *)
(* FALSE when a step needs a process slot and MaxProcs leaves none: the    *)
(* actions are guarded by it.                                              *)

\* ClashStatus::default(); child 0 is None, child p is Some(process p)
DefaultStatus(t) ==
    [auto_restart |-> FALSE, restart_retry_count |-> DEFAULT_RETRY_COUNT,
     child |-> 0, last_running_time |-> t, info |-> None]

\* a slot of procs holding no process.  Of a process: nout, the lines it
\* has written to its stdout; pipe, those of them its reader thread has not
\* read yet; old (history), the ring was cleared since it was spawned
FreeProc ==
    [st |-> "free", body |-> BodyA, wpc |-> "none", snap |-> DefaultStatus(0), newp |-> 0,
     nout |-> 0, pipe |-> 0, old |-> FALSE]

\* what the exit waiters did since ClashStatus was last reset (history):
\*   respawns     cores they spawned since the count was last set to
\*                DEFAULT_RETRY_COUNT (by stop_clash or by a waiter's credit)
\*   exceeded     one of them logged "retry count exceeded"
\*   lost         one of them died on the u8 underflow
\*   credit_by    the waiter that last reset the count to DEFAULT_RETRY_COUNT
\*                after a run longer than INTERVAL_TIME, if auto_restart
\*                was still set when it did and no other waiter has
\*                written the count since; 0 otherwise
\*   credit_done  that waiter has recorded the core it respawned
\* and, since the last start_clash: spent, the budget was found exhausted;
\* stopped, stop_clash has reset ClashStatus and start_clash has not yet
\* marked it again; and from_zero, the handler in progress ran stop_clash
\* when restart_retry_count was 0
FreshLife ==
    [respawns |-> 0, exceeded |-> FALSE, lost |-> FALSE,
     credit_by |-> 0, credit_done |-> FALSE, spent |-> FALSE, stopped |-> FALSE,
     from_zero |-> FALSE]

\* LogConfig::default() after LogConfig::init(None): main.rs line 73
DefaultLogConfig ==
    [log_file_name |-> "clash-verge-service.log", log_dir |-> None,
     limited_file_size |-> Some(2097152), handle |-> TRUE]

\* the mutexes of the supervisor: ClashStatus::global(), ClashStatus.child,
\* the log ring's and LogConfig::global()'s; and the threads that lock them
Mutexes == {"status", "child", "ring", "logcfg"}
NoThread == <<>>
HandlerThread(h) == <<"handler", h>>
WaiterThread(p) == <<"waiter", p>>
ReaderThread(p) == <<"reader", p>>

Sup == [status |-> clash_status, procs |-> procs, ring |-> ring, logged |-> logged,
        cfg |-> log_config, files |-> files, life |-> life, mutex |-> mutex, mirror |-> mirror,
        ok |-> TRUE]

\* a process record is dropped once it is reaped, its exit waiter has
\* returned and ClashStatus.child no longer holds it (the last Arc is gone)
Gc(S) ==
    [S EXCEPT !.procs = [p \in DOMAIN S.procs |->
        IF /\ S.procs[p].st = "reaped"
           /\ S.procs[p].wpc = "done"
           /\ S.status.child # p
           /\ S.procs[p].pipe = 0
           /\ \A i \in DOMAIN S.ring : S.ring[i].p # p
        THEN FreeProc ELSE S.procs[p]]]

FreeSlots(S) == {p \in DOMAIN S.procs : S.procs[p].st = "free"}
NewProc(S) == CHOOSE p \in FreeSlots(S) : \A q \in FreeSlots(S) : p <= q

\* SharedChild::kill: a running process dies, a dead one is left alone
Kill(ps, p) ==
    IF ps[p].st = "running" THEN [ps EXCEPT ![p].st = "exited"] ELSE ps

\* stop_clash, the ClashStatus lock scope: take the child, kill it, reset
StopLockKeepsInfo(S, t) ==
    LET c == S.status.child IN
    Gc([S EXCEPT !.procs = IF c # 0 THEN Kill(S.procs, c) ELSE S.procs,
                 !.status = [DefaultStatus(t) EXCEPT !.info = S.status.info],
                 !.life = [FreshLife EXCEPT !.spent = S.life.spent, !.stopped = TRUE,
                                           !.from_zero = S.status.restart_retry_count = 0]])

StopLockKeepsAutoRestart(S, t) ==
    LET c == S.status.child IN
    Gc([S EXCEPT !.procs = IF c # 0 THEN Kill(S.procs, c) ELSE S.procs,
                 !.status = [DefaultStatus(t) EXCEPT !.auto_restart = S.status.auto_restart],
                 !.life = [FreshLife EXCEPT !.spent = S.life.spent, !.stopped = TRUE,
                                           !.from_zero = S.status.restart_retry_count = 0]])

stop_lock(S, t) ==
    LET c == S.status.child IN
    Gc([S EXCEPT !.procs = IF c # 0 THEN Kill(S.procs, c) ELSE S.procs,
                 !.status = DefaultStatus(t),
                 !.life = [FreshLife EXCEPT !.spent = S.life.spent, !.stopped = TRUE,
                                           !.from_zero = S.status.restart_retry_count = 0]])

\* Logger::clear_log
clear_log(S) ==
    [S EXCEPT !.ring = <<>>, !.logged = <<>>,
              !.procs = [p \in DOMAIN S.procs |->
                  IF S.procs[p].st = "free" THEN S.procs[p]
                  ELSE [S.procs[p] EXCEPT !.old = TRUE]]]

\* Logger::set_log: push to the tail, pop from the head beyond N lines
SetLogPopsTail(r, line) ==
    IF Len(r) < MaxLogLines THEN Append(r, line) ELSE r

set_log(r, line) ==
    IF Len(r) < MaxLogLines THEN Append(r, line) ELSE Append(Tail(r), line)

\* a line of the log: line k of process p
LogLine(p, k) == [p |-> p, k |-> k]
\* the same with its text
TextLine(p, k, text) == [p |-> p, k |-> k, text |-> text]

\* The text of a line is the sequence of its pieces: maximal runs of word
\* characters (the \w of the regex), "=" and " ".
Words == {"level", "loglevel", "msg", "error", "warning", "info", "debug", "fatal", "warn"}
\* the run ends with the letters l e v e l
EndsWithLevel(w) == w \in {"level", "loglevel"}
\* a line without a level= token
PlainText == <<"msg">>

\* Regex::new(r"level=(\w+)").captures(line): the places where "level=" is
\* followed by a word character
LevelMatches(text) ==
    {i \in 1..(Len(text) - 2) :
        EndsWithLevel(text[i]) /\ text[i + 1] = "=" /\ text[i + 2] \in Words}
\* caps.get(1) of the leftmost match, None without a match
level_token(text) ==
    IF LevelMatches(text) = {} THEN None
    ELSE Some(text[(CHOOSE i \in LevelMatches(text) : \A j \in LevelMatches(text) : i <= j) + 2])

\* wrap_mihomo_log: the level of the log macro the line is handed to
wrap_mihomo_log(text) ==
    LET level == IF level_token(text) = None THEN "info" ELSE Unwrap(level_token(text)) IN
    CASE level = "error"   -> "error"
      [] level = "warning" -> "warn"
      [] level = "info"    -> "info"
      [] level = "debug"   -> "debug"
      [] OTHER             -> "debug"

\* run_core's stdout reader thread, one turn of its loop: the next line of
\* the pipe, whose text is text, goes to the ring and to the service logger
reader_line(S, p, line, text) ==
    [S EXCEPT !.ring = set_log(@, line), !.logged = Append(@, line),
              !.procs[p].pipe = @ - 1,
              !.mirror = Some(wrap_mihomo_log(text))]

\* the same where the text of the line is left out: a line without a token
reader_step(S, p) ==
    reader_line(S, p, LogLine(p, S.procs[p].nout - S.procs[p].pipe + 1), PlainText)

\* stop_clash: kill every process whose image name holds "verge-mihomo"
force_kill(S) ==
    [S EXCEPT !.procs = [p \in DOMAIN S.procs |->
        IF S.procs[p].st = "running" /\ NameMatches(S.procs[p].body.bin_path)
        THEN [S.procs[p] EXCEPT !.st = "exited"] ELSE S.procs[p]]]

\* start_clash, the ClashStatus lock scope after stop_clash
start_mark(S, body) ==
    [S EXCEPT !.status.auto_restart = TRUE, !.status.info = Some(body),
              !.life.spent = FALSE, !.life.stopped = FALSE]

\* LogConfig::update_config(log_file_name, log_dir, None) and the two
\* unwraps before it: "ok", "err" (bail!) or "panic" (unwrap on None / Err)
NeedUpdate(cfg, name, dir) ==
    \/ name # cfg.log_file_name
    \/ cfg.log_dir = None
    \/ Some(dir) # cfg.log_dir
    \/ None # cfg.limited_file_size

update_log_config(S, body) ==
    LET parent == PathParent(body.log_file)
        fname  == PathFileName(body.log_file)
    IN  IF parent = None \/ fname = None THEN [res |-> "panic", S |-> S]
        ELSE IF ~S.cfg.handle THEN [res |-> "err", S |-> S]
        ELSE IF ~NeedUpdate(S.cfg, Unwrap(fname), Unwrap(parent)) THEN [res |-> "ok", S |-> S]
        ELSE IF ~DirWritable(Unwrap(parent)) THEN [res |-> "panic", S |-> S]
        ELSE [res |-> "ok",
              S |-> [S EXCEPT !.cfg.log_file_name = Unwrap(fname),
                              !.cfg.log_dir = parent,
                              !.cfg.limited_file_size = None]]

\* run_core, SharedChild::spawn: the new process id, or 0 when spawn fails
run_core_spawn(S, body) ==
    IF ~Spawnable(body.bin_path) THEN [p |-> 0, S |-> S]
    ELSE IF FreeSlots(S) = {} THEN [p |-> 0, S |-> [S EXCEPT !.ok = FALSE]]
    ELSE LET q == NewProc(S) IN
         [p |-> q,
          S |-> [S EXCEPT !.procs[q] = [FreeProc EXCEPT !.st = "running", !.body = body]]]

\* run_core, the ClashStatus lock scope, then the two threads are started
run_core_record(S, q, t) ==
    Gc([S EXCEPT !.status.child = q,
                 !.status.last_running_time = t,
                 !.procs[q].wpc = "wait"])

\* get_clash: the envelope's Result
get_clash(st) ==
    IF st.restart_retry_count = 0
    THEN [ok |-> FALSE, msg |-> "clash not executed, retry count exceeded!", data |-> None]
    ELSE IF st.info = None
    THEN [ok |-> FALSE, msg |-> "clash not executed", data |-> None]
    ELSE [ok |-> TRUE, msg |-> "ok",
          data |-> Some([auto_restart |-> st.auto_restart,
                         restart_retry_count |-> st.restart_retry_count,
                         last_running_time |-> st.last_running_time,
                         info |-> st.info])]

\* get_version
get_version ==
    [ok |-> TRUE, msg |-> "ok",
     data |-> Some([version |-> CARGO_PKG_VERSION, service |-> SERVICE_LABEL])]

\* get_logs
get_logs(S) == [ok |-> TRUE, msg |-> "ok", data |-> Some([lines |-> S.ring])]

-----------------------------------------------------------------------------
(* The exit waiter thread of run_core (handle.rs 103-139), one step per    *)
(* lock scope.  procs[p].wpc is the waiter's position, procs[p].snap its   *)
(* local clone of ClashStatus, procs[p].body its body_clone.               *)

\* restart_retry_count -= 1 on a u8: at 0 the build with overflow checks
\* panics, the build without wraps to 255
U8Dec(x) == (x + U8_MAX) % (U8_MAX + 1)
OverflowModes == {"panic", "wrap"}

\* the waiter thread returns: its locals are dropped
waiter_end(S, p) ==
    Gc([S EXCEPT !.procs[p].wpc = "done", !.procs[p].snap = DefaultStatus(0),
                 !.procs[p].newp = 0])

\* line 119: the test on the waiter's own snapshot
waiter_check(S, p) ==
    IF S.procs[p].snap.restart_retry_count > 0
    THEN [S EXCEPT !.procs[p].wpc = "dec"]
    ELSE waiter_end([S EXCEPT !.life.exceeded = TRUE, !.life.spent = TRUE], p)

\* lines 104-110: wait() returns, clone ClashStatus, read the clock
waiter_snap(S, p, t) ==
    LET S1 == [S EXCEPT !.procs[p].st = "reaped", !.procs[p].snap = S.status] IN
    IF ~S.status.auto_restart THEN waiter_end(S1, p)
    ELSE IF t - S.status.last_running_time > INTERVAL_TIME
    THEN [S1 EXCEPT !.procs[p].wpc = "reset"]
    ELSE waiter_check(S1, p)

\* lines 115-117: reset the stored count, clone again
waiter_reset(S, p) ==
    LET st == [S.status EXCEPT !.restart_retry_count = DEFAULT_RETRY_COUNT] IN
    waiter_check([S EXCEPT !.status = st, !.procs[p].snap = st,
                           !.life.respawns = 0,
                           !.life.credit_by = IF S.status.auto_restart THEN p ELSE 0,
                           !.life.credit_done = FALSE], p)

\* lines 127-128: decrement the stored count
WaiterDecSkipped(S, p, mode) == [S EXCEPT !.procs[p].wpc = "spawn"]

waiter_dec(S, p, mode) ==
    IF S.status.restart_retry_count = 0 /\ mode = "panic"
    THEN waiter_end([S EXCEPT !.life.lost = TRUE], p)
    ELSE [S EXCEPT !.status.restart_retry_count = U8Dec(@), !.procs[p].wpc = "spawn",
                   !.life.credit_by = IF @ = p /\ ~S.life.credit_done THEN p ELSE 0,
                   !.life.credit_done = FALSE]

\* lines 130-131: clear_log(), then run_core(body_clone) up to
\* SharedChild::spawn; neither takes the ClashStatus lock
waiter_spawn(S, p) ==
    LET r == run_core_spawn(clear_log(S), S.procs[p].body) IN
    IF S.life.respawns >= MaxRespawns THEN [S EXCEPT !.ok = FALSE]
    ELSE IF ~r.S.ok THEN r.S
    ELSE IF r.p = 0 THEN waiter_end(clear_log(S), p)
    ELSE [r.S EXCEPT !.procs[p].wpc = "record", !.procs[p].newp = r.p,
                     !.life.respawns = @ + 1]

\* line 131, run_core(body_clone): record the child, start its threads
waiter_record(S, p, t) ==
    LET S1 == [S EXCEPT !.life.credit_done = @ \/ S.life.credit_by = p] IN
    waiter_end(run_core_record(S1, S.procs[p].newp, t), p)

WaiterStep(S, p, t, mode) ==
    CASE S.procs[p].wpc = "wait"   -> waiter_snap(S, p, t)
      [] S.procs[p].wpc = "reset"  -> waiter_reset(S, p)
      [] S.procs[p].wpc = "dec"    -> waiter_dec(S, p, mode)
      [] S.procs[p].wpc = "spawn"  -> waiter_spawn(S, p)
      [] S.procs[p].wpc = "record" -> waiter_record(S, p, t)
      [] OTHER -> S

\* the waiter can take a step: its child has exited, or it is past wait()
WaiterReady(S, p) ==
    \/ S.procs[p].wpc = "wait" /\ S.procs[p].st = "exited"
    \/ S.procs[p].wpc \in {"reset", "dec", "spawn", "record"}

\* the whole thread body, from wait() returning to the thread's end
RECURSIVE RunWaiter(_, _, _, _)
RunWaiter(S, p, t, mode) ==
    IF ~S.ok \/ ~WaiterReady(S, p) THEN S
    ELSE RunWaiter(WaiterStep(S, p, t, mode), p, t, mode)

-----------------------------------------------------------------------------
(* The handlers (handle.rs 58-64, 161-225; mod.rs 324-356), one step per   *)
(* lock scope.  T = [pc, cmd, body, sock, newp, res] is the handler's      *)
(* frame: res is the handler's Result once pc = "ret".                     *)

Unit == [unit |-> TRUE]
OkUnit == [ok |-> TRUE, msg |-> "ok", data |-> Some(Unit)]
Err(msg) == [ok |-> FALSE, msg |-> msg, data |-> None]
NoRes == [ok |-> FALSE, msg |-> "", data |-> None]

CommandTags == {"GetVersion", "GetClash", "GetLogs", "StartClash", "StopClash", "StopService"}

NoTask == [pc |-> "idle", cmd |-> "GetVersion", body |-> BodyA, sock |-> None,
           newp |-> 0, res |-> NoRes, n |-> 0]

\* handle_socket_command's match: where each command starts
NewTask(cmd, body) ==
    [NoTask EXCEPT !.cmd = cmd, !.body = body,
                   !.pc = CASE cmd = "StartClash" -> "stop_lock"
                            [] cmd = "StopClash"  -> "read_sock"
                            [] OTHER              -> "call"]

Ret(T, res) == [T EXCEPT !.pc = "ret", !.res = res]

handler_stop_lock(S, T, t) == [S |-> stop_lock(S, t), T |-> [T EXCEPT !.pc = "stop_kill"]]

HandlerStep(S, T, t) ==
    CASE T.pc = "call" ->
            [S |-> S,
             T |-> Ret(T, CASE T.cmd = "GetVersion" -> get_version
                            [] T.cmd = "GetClash"   -> get_clash(S.status)
                            [] T.cmd = "GetLogs"    -> get_logs(S)
                            [] OTHER                -> OkUnit)]
      [] T.pc = "read_sock" ->
            [S |-> S,
             T |-> [T EXCEPT !.pc = "stop_lock",
                             !.sock = IF S.status.info = None THEN None
                                      ELSE Unwrap(S.status.info).socket_path]]
      [] T.pc = "stop_lock"  -> handler_stop_lock(S, T, t)
      [] T.pc = "stop_kill"  ->
            [S |-> force_kill(clear_log(S)),
             T |-> IF T.cmd # "StopClash" THEN [T EXCEPT !.pc = "mark"]
                   ELSE IF T.sock = None THEN Ret(T, OkUnit)
                   ELSE [T EXCEPT !.pc = "rm_sock"]]
      [] T.pc = "rm_sock" ->
            \* mod.rs 340-349: delete the socket file if it still exists
            [S |-> [S EXCEPT !.files = @ \ {Unwrap(T.sock)}], T |-> Ret(T, OkUnit)]
      [] T.pc = "mark" -> [S |-> start_mark(S, T.body), T |-> [T EXCEPT !.pc = "logcfg"]]
      [] T.pc = "logcfg" ->
            LET r == update_log_config(S, T.body) IN
            [S |-> r.S,
             T |-> CASE r.res = "panic" -> [T EXCEPT !.pc = "panic"]
                     [] r.res = "err" -> Ret(T, Err("update log config failed, log handle is none, please init first"))
                     [] OTHER -> [T EXCEPT !.pc = "spawn"]]
      [] T.pc = "spawn" ->
            LET r == run_core_spawn(S, T.body) IN
            [S |-> r.S,
             T |-> IF ~r.S.ok THEN T
                   ELSE IF r.p = 0 THEN Ret(T, Err("failed to spawn clash"))
                   ELSE [T EXCEPT !.pc = "record", !.newp = r.p]]
      [] T.pc = "record" ->
            [S |-> run_core_record(S, T.newp, t), T |-> Ret([T EXCEPT !.newp = 0], OkUnit)]
      [] OTHER -> [S |-> S, T |-> T]

HandlerDone(T) == T.pc \in {"ret", "panic", "idle"}

\* the whole handler call
RECURSIVE RunHandler(_, _, _)
RunHandler(S, T, t) ==
    IF ~S.ok \/ HandlerDone(T) THEN [S |-> S, T |-> T]
    ELSE LET r == HandlerStep(S, T, t) IN RunHandler(r.S, r.T, t)

-----------------------------------------------------------------------------
(* The request codec: serde_json on SocketCommand and JsonResponse         *)

\* a request payload as JSON text: a string, a one-key object, or no JSON
JStr(str) == [json |-> "str", s |-> str, body |-> BodyA]
JObj(key, body) == [json |-> "obj", s |-> key, body |-> body]
JInvalid == [json |-> "invalid", s |-> "", body |-> BodyA]

UnitTags == {"GetVersion", "GetClash", "GetLogs", "StopClash", "StopService"}

\* serde_json::from_str::<SocketCommand>: a unit variant is its name as a
\* JSON string, StartClash a one-key object holding the StartBody
ParseAcceptsAll(payload) == [ok |-> TRUE, cmd |-> "GetVersion", body |-> payload.body]

parse_command(payload) ==
    IF payload.json = "str" /\ payload.s \in UnitTags
    THEN [ok |-> TRUE, cmd |-> payload.s, body |-> payload.body]
    ELSE IF payload.json = "obj" /\ payload.s = "StartClash"
    THEN [ok |-> TRUE, cmd |-> "StartClash", body |-> payload.body]
    ELSE [ok |-> FALSE, cmd |-> "GetVersion", body |-> payload.body]

\* wrap_response!: the envelope of a handler's Result
WrapResponseErrOnly(res) == [code |-> 400, msg |-> res.msg, data |-> None]

wrap_response(res) ==
    IF res.ok THEN [code |-> 0, msg |-> "ok", data |-> res.data]
    ELSE [code |-> 400, msg |-> res.msg, data |-> None]

\* serde_json::to_string(&JsonResponse): None and Some(()) are both null
JNull == [null |-> TRUE]
to_json(env) ==
    [code |-> env.code, msg |-> env.msg,
     data |-> IF env.data = None \/ env.data = Some(Unit) THEN JNull ELSE Unwrap(env.data)]

NoEnv == [code |-> 0, msg |-> "", data |-> JNull]

\* JsonResponse::<T>::from_str on the client: serde reads null into
\* Option<T> as None, whatever T is
from_json(j) ==
    [code |-> j.code, msg |-> j.msg,
     data |-> IF j.data = JNull THEN None ELSE Some(j.data)]

\* Client::send: serde_json::to_string(&command)
command_json(cmd, body) ==
    IF cmd = "StartClash" THEN JObj("StartClash", body) ELSE JStr(cmd)

-----------------------------------------------------------------------------
(* SecureChannel: handshake, send, recv (mod.rs 58-156, 226-284)           *)

KEY_INFO == "rust-secure-ipc-demo"
ClientPsks == {None, Some(PSK), Some("wrong")}
ServerPsk == Some(PSK)

\* StaticSecret::random_from_rng: a fresh secret per connection and side
ServerSecret(c) == [side |-> "server", conn |-> c]
ClientSecret(c) == [side |-> "client", conn |-> c]
PublicKey(secret) == [pub |-> secret]
\* diffie_hellman: both sides get the same secret from own secret, peer public
diffie_hellman(secret, peer_pub) == {secret, peer_pub.pub}

\* Hkdf::new(salt, ikm) then expand(KEY_INFO): no salt is the empty salt
HkdfSaltIgnored(psk, shared) == [salt |-> "", ikm |-> shared, info |-> KEY_INFO]

hkdf_key(psk, shared) ==
    [salt |-> IF psk = None THEN "" ELSE Unwrap(psk), ikm |-> shared, info |-> KEY_INFO]

\* a key no party of the connection derived
JunkKey == [salt |-> "junk", ikm |-> {}, info |-> KEY_INFO]

server_key(c) == hkdf_key(ServerPsk, diffie_hellman(ServerSecret(c), PublicKey(ClientSecret(c))))
client_key(c, psk) == hkdf_key(psk, diffie_hellman(ClientSecret(c), PublicKey(ServerSecret(c))))

\* the AEAD plaintext: timestamp (16 bytes), message id (8 bytes), payload;
\* a runt plaintext is shorter than the 24 bytes of the two
Plain(ts, id, payload) == [runt |-> FALSE, ts |-> ts, msg_id |-> id, payload |-> payload]
RuntPlain == [runt |-> TRUE, ts |-> 0, msg_id |-> 0, payload |-> JInvalid]

\* XChaCha20Poly1305: decrypt succeeds only under the key of encrypt
encrypt(key, plain) == [key |-> key, plain |-> plain]
DecryptAnyKey(key, cipher) == Some(cipher.plain)

decrypt(key, cipher) == IF cipher.key = key THEN Some(cipher.plain) ELSE None

\* a frame: the declared length, whether that many bytes arrive before the
\* stream ends, and the ciphertext (None: the bytes are no ciphertext)
NONCE_LEN == 24
Frame(len, whole, cipher) == [frame_len |-> len, whole |-> whole, cipher |-> cipher]
\* frame = length(4) + nonce(24) + cipher: total_len = 24 + cipher.len(),
\* the ciphertext's own length left abstract as FRAME_LEN_OK >= 24 + 16
FRAME_LEN_OK == NONCE_LEN + 16 + 24
SealedFrame(key, plain) == Frame(FRAME_LEN_OK, TRUE, Some(encrypt(key, plain)))
EofFrame == Frame(0, FALSE, None)

\* now - ts > timestamp_window on u128: with ts > now the subtraction
\* overflows; without overflow checks it wraps to 2^128 - (ts - now), which
\* exceeds any window the model holds, with them it panics
RecvNoWindow(ch, f, t, mode) ==
    LET plain == Unwrap(decrypt(ch.key, Unwrap(f.cipher))) IN
    IF ~f.whole \/ f.cipher = None \/ decrypt(ch.key, Unwrap(f.cipher)) = None \/ plain.runt
       \/ plain.msg_id \in ch.seen_ids
    THEN [res |-> "err", why |-> "rejected", payload |-> JInvalid, seen_ids |-> ch.seen_ids]
    ELSE [res |-> "ok", why |-> "", payload |-> plain.payload,
          seen_ids |-> ch.seen_ids \cup {plain.msg_id}]

RecvNoSeenCheck(ch, f, t, mode) ==
    LET plain == Unwrap(decrypt(ch.key, Unwrap(f.cipher))) IN
    IF ~f.whole \/ f.cipher = None \/ decrypt(ch.key, Unwrap(f.cipher)) = None \/ plain.runt
       \/ t < plain.ts \/ t - plain.ts > ch.timestamp_window
    THEN [res |-> "err", why |-> "rejected", payload |-> JInvalid, seen_ids |-> ch.seen_ids]
    ELSE [res |-> "ok", why |-> "", payload |-> plain.payload,
          seen_ids |-> ch.seen_ids \cup {plain.msg_id}]

recv(ch, f, t, mode) ==
    LET fail(res, why) ==
            [res |-> res, why |-> why, payload |-> JInvalid, seen_ids |-> ch.seen_ids]
    IN
    IF ~f.whole THEN fail("err", "invalid connection")
    ELSE IF f.frame_len < NONCE_LEN THEN fail("panic", "split_at: mid > len")
    ELSE IF f.cipher = None \/ decrypt(ch.key, Unwrap(f.cipher)) = None
    THEN fail("err", "decrypt failed")
    ELSE LET plain == Unwrap(decrypt(ch.key, Unwrap(f.cipher))) IN
         IF plain.runt THEN fail("err", "payload too short")
         ELSE IF t < plain.ts /\ mode = "panic"
         THEN fail("panic", "attempt to subtract with overflow")
         ELSE IF t < plain.ts \/ t - plain.ts > ch.timestamp_window
         THEN fail("err", "replay attack: old timestamp")
         ELSE IF plain.msg_id \in ch.seen_ids
         THEN fail("err", "replay attack: duplicate message ID")
         ELSE [res |-> "ok", why |-> "", payload |-> plain.payload,
               seen_ids |-> ch.seen_ids \cup {plain.msg_id}]

\* send: one frame, sealed under the channel's key, with the sender's
\* clock and a random message id
send(ch, payload, t, id) == SealedFrame(ch.key, Plain(t, id, payload))

-----------------------------------------------------------------------------
(* Initial state: run_service has bound the endpoint, nothing is connected, *)
(* ClashStatus::global() holds its default, no core was ever spawned.       *)

NoReq == [ok |-> FALSE, cmd |-> "GetVersion", body |-> BodyA, msg_id |-> 0]

NoSrv == [st |-> "none", key |-> JunkKey, seen_ids |-> {}, timestamp_window |-> timestamp_window,
          pub_sent |-> FALSE, req |-> NoReq]

\* last, got, nread, age are history: the outcome of the client's last
\* recv, the envelope it returned, how many frames the client has read and
\* how old the last one was when read
NoCli == [st |-> "idle", psk |-> None, key |-> JunkKey, seen_ids |-> {},
          timestamp_window |-> timestamp_window, last |-> "none", got |-> NoEnv,
          nread |-> 0, age |-> 0]

\* the last frame the read task took from the stream (history): whether it
\* was a whole frame sealed under the session key around a full plaintext,
\* its age now - timestamp_ms, whether its id was in seen_ids, what recv
\* made of it, and how many requests had been accepted and envelopes
\* written before it
NoLast == [valid |-> FALSE, age |-> 0, dup |-> FALSE, res |-> "none", why |-> "",
           nreq |-> 0, nresp |-> 0]

NoHist == [reqs |-> <<>>, resps |-> <<>>, last |-> NoLast]

InitChan ==
    /\ service = "running"
    /\ listener = 0
    /\ srv = [c \in Conns |-> NoSrv]
    /\ cli = [c \in Conns |-> NoCli]
    /\ wire = [c \in Conns |-> <<>>]
    /\ hist = [c \in Conns |-> NoHist]

InitSup ==
    /\ clash_status = DefaultStatus(0)
    /\ procs = [p \in ProcIds |-> FreeProc]
    /\ ring = <<>>
    /\ logged = <<>>
    /\ log_config = DefaultLogConfig
    /\ files = {}
    /\ life = FreshLife
    /\ mutex = [m \in Mutexes |-> NoThread]
    /\ mirror = None

Init ==
    /\ now = 0
    /\ InitChan
    /\ InitSup
    /\ task = [h \in TaskIds |-> NoTask]

\* the supervisor variables take the values of S
SetSup(S) ==
    /\ S.ok
    /\ clash_status' = S.status
    /\ procs' = S.procs
    /\ ring' = S.ring
    /\ logged' = S.logged
    /\ log_config' = S.cfg
    /\ files' = S.files
    /\ life' = S.life
    /\ mutex' = S.mutex
    /\ mirror' = S.mirror

-----------------------------------------------------------------------------
(* The listener, the sessions and the clients.  The actions that take      *)
(* input are parameterised by the set it is drawn from.                    *)

\* the clock advances to a later instant of I
TickIn(I) ==
    /\ \E t \in I : t > now /\ now' = t
    /\ UNCHANGED <<chanVars, supVars, task>>

\* Client::connect: Endpoint::connect, then handshake_client writes its key
ClientConnect(c, Psks) ==
    /\ service # "stopped"
    /\ cli[c].st = "idle"
    /\ \E psk \in Psks :
          cli' = [cli EXCEPT ![c].st = "sent_pub", ![c].psk = psk]
    /\ srv' = [srv EXCEPT ![c].st = "queued"]
    /\ UNCHANGED <<now, service, listener, wire, hist, supVars, task>>

\* run_service: incoming.next() yields the stream (lines 200-203)
Accept(c) ==
    /\ service # "stopped"
    /\ listener = 0
    /\ srv[c].st = "queued"
    /\ listener' = c
    /\ srv' = [srv EXCEPT ![c].st = "handshake"]
    /\ UNCHANGED <<now, service, cli, wire, hist, supVars, task>>

\* how the accept loop of run_service ended other than by the shutdown
\* signal: LoopReturned, the `?` on a failed handshake returned from the
\* loop (line 204); LoopPanicked, incoming.next() yielded an Err and
\* unreachable!() panicked (line 208)
LoopReturned == 0 - 1
LoopPanicked == 0 - 2

\* the process ends: every session task is dropped wherever it stands
Teardown == [c \in Conns |-> IF srv[c].st \in {"none", "closed", "hs_failed"} THEN srv[c]
                              ELSE [srv[c] EXCEPT !.st = "killed"]]

\* handshake_server, awaited inside the accept loop, then spawn_read_task
HandshakeSharesSeenIds(c) ==
    /\ service # "stopped"
    /\ listener = c
    /\ cli[c].st = "sent_pub"
    /\ srv' = [srv EXCEPT ![c].st = "reading", ![c].key = server_key(c),
                          ![c].seen_ids = UNION {srv[d].seen_ids : d \in Conns},
                          ![c].pub_sent = TRUE]
    /\ listener' = 0
    /\ UNCHANGED <<now, service, cli, wire, hist, supVars, task>>

handshake_server(c) ==
    /\ service # "stopped"
    /\ listener = c
    /\ cli[c].st = "sent_pub"
    /\ srv' = [srv EXCEPT ![c].st = "reading", ![c].key = server_key(c),
                          ![c].seen_ids = {}, ![c].pub_sent = TRUE]
    /\ listener' = 0
    /\ UNCHANGED <<now, service, cli, wire, hist, supVars, task>>

\* handshake_server fails: the peer has closed its end, so read_exact of its
\* key (line 232) or write_all of the server's key (line 235) returns Err;
\* the `?` of line 204 leaves the accept loop, the select! completes and
\* run_service returns Ok: the process exits without stop_service
HandshakeFails(c) ==
    /\ service # "stopped"
    /\ listener = c
    /\ cli[c].st = "closed"
    /\ service' = "stopped"
    /\ listener' = LoopReturned
    /\ srv' = [Teardown EXCEPT ![c].st = "hs_failed"]
    /\ UNCHANGED <<now, cli, wire, hist, supVars, task>>

\* incoming.next() yields Some(Err(_)): the match arm of line 208 is
\* unreachable!(), which panics inside block_on; the process dies
AcceptError ==
    /\ service # "stopped"
    /\ listener = 0
    /\ service' = "stopped"
    /\ listener' = LoopPanicked
    /\ srv' = Teardown
    /\ UNCHANGED <<now, cli, wire, hist, supVars, task>>

\* SIGINT: the ctrl_c branch of the select! (lines 217-220) runs
\* stop_service and run_service returns
Interrupt ==
    /\ service # "stopped"
    /\ service' = "stopped"
    /\ listener' = 0
    /\ srv' = Teardown
    /\ UNCHANGED <<now, cli, wire, hist, supVars, task>>

\* handshake_client: read the server's key, derive the session key
handshake_client(c) ==
    /\ cli[c].st = "sent_pub"
    /\ srv[c].pub_sent
    /\ cli' = [cli EXCEPT ![c].st = "ready", ![c].key = client_key(c, cli[c].psk)]
    /\ UNCHANGED <<now, service, listener, srv, wire, hist, supVars, task>>

\* a whole frame, sealed under key, around a full plaintext
FrameValid(f, key) ==
    /\ f.whole
    /\ f.frame_len >= NONCE_LEN
    /\ f.cipher # None
    /\ Unwrap(f.cipher).key = key
    /\ ~Unwrap(f.cipher).plain.runt

\* the frame's timestamp is ahead of the clock t: now - timestamp_ms overflows
FrameAhead(f, t) ==
    /\ f.cipher # None
    /\ ~Unwrap(f.cipher).plain.runt
    /\ Unwrap(f.cipher).plain.ts > t

\* spawn_read_task: secured.recv() and serde_json::from_str (lines 288-304);
\* the peer's next frame is drawn from F
ServerRecvPanicAborts(c, F) ==
    /\ service # "stopped"
    /\ srv[c].st = "reading"
    /\ \E f \in F :
       \E mode \in IF FrameAhead(f, now) THEN OverflowModes ELSE {"wrap"} :
          /\ ~f.whole => cli[c].st = "closed"
          /\ LET r == recv(srv[c], f, now, mode)
                 valid == FrameValid(f, srv[c].key)
                 id == IF valid THEN Unwrap(f.cipher).plain.msg_id ELSE 0
                 last == [valid |-> valid,
                          age |-> IF valid THEN now - Unwrap(f.cipher).plain.ts ELSE 0,
                          dup |-> id \in srv[c].seen_ids,
                          res |-> r.res, why |-> r.why,
                          nreq |-> Len(hist[c].reqs), nresp |-> Len(hist[c].resps)]
                 req == parse_command(r.payload)
             IN  IF r.res = "ok"
                 THEN /\ srv' = [srv EXCEPT ![c].st = "handling", ![c].seen_ids = r.seen_ids,
                                            ![c].req = [ok |-> req.ok, cmd |-> req.cmd,
                                                        body |-> req.body, msg_id |-> id]]
                      /\ hist' = [hist EXCEPT ![c].last = last,
                                              ![c].reqs = Append(@, [msg_id |-> id, age |-> last.age,
                                                                     payload |-> r.payload])]
                      /\ UNCHANGED service
                 ELSE /\ srv' = IF r.res = "panic" THEN [Teardown EXCEPT ![c].st = "closed"]
                                ELSE [srv EXCEPT ![c].st = "closed"]
                      /\ service' = IF r.res = "panic" THEN "stopped" ELSE service
                      /\ hist' = [hist EXCEPT ![c].last = last]
    /\ UNCHANGED <<now, listener, cli, wire, supVars, task>>

ServerRecvWhileHandling(c) == srv[c].st \in {"reading", "handling"}

ServerCanRecv(c) == srv[c].st = "reading"

ServerRecv(c, F) ==
    /\ service # "stopped"
    /\ ServerCanRecv(c)
    /\ \E f \in F :
       \E mode \in IF FrameAhead(f, now) THEN OverflowModes ELSE {"wrap"} :
          /\ ~f.whole => cli[c].st = "closed"
          /\ LET r == recv(srv[c], f, now, mode)
                 valid == FrameValid(f, srv[c].key)
                 id == IF valid THEN Unwrap(f.cipher).plain.msg_id ELSE 0
                 last == [valid |-> valid,
                          age |-> IF valid THEN now - Unwrap(f.cipher).plain.ts ELSE 0,
                          dup |-> id \in srv[c].seen_ids,
                          res |-> r.res, why |-> r.why,
                          nreq |-> Len(hist[c].reqs), nresp |-> Len(hist[c].resps)]
                 req == parse_command(r.payload)
             IN  IF r.res = "ok"
                 THEN /\ srv' = [srv EXCEPT ![c].st = "handling", ![c].seen_ids = r.seen_ids,
                                            ![c].req = [ok |-> req.ok, cmd |-> req.cmd,
                                                        body |-> req.body, msg_id |-> id]]
                      /\ hist' = [hist EXCEPT ![c].last = last,
                                              ![c].reqs = Append(@, [msg_id |-> id, age |-> last.age,
                                                                     payload |-> r.payload])]
                 ELSE /\ srv' = [srv EXCEPT ![c].st = "closed"]
                      /\ hist' = [hist EXCEPT ![c].last = last]
    /\ UNCHANGED <<now, service, listener, cli, wire, supVars, task>>

\* the end of one turn of the read loop: the envelope is written through
\* secured.send (handle_socket_command line 354, send_error_resp line 292);
\* after StopService the stream is shut down and the shutdown signal sent
Respond(c, env, id, S, stop) ==
    /\ SetSup(S)
    /\ IF cli[c].st = "closed"
       THEN \* the write fails, send_error_resp's too: the task returns
            /\ srv' = [srv EXCEPT ![c].st = "closed", ![c].req = NoReq]
            /\ UNCHANGED <<wire, hist, service>>
       ELSE /\ wire' = [wire EXCEPT ![c] = Append(@, send(srv[c], to_json(env), now, id))]
            /\ hist' = [hist EXCEPT ![c].resps = Append(@, [msg_id |-> srv[c].req.msg_id,
                                                            env |-> to_json(env)])]
            /\ srv' = [srv EXCEPT ![c].st = IF stop THEN "closed" ELSE "reading",
                                  ![c].req = NoReq]
            /\ service' = IF stop /\ service = "running" THEN "signalled" ELSE service

\* a panic unwinds the read task: the channel is dropped, nothing is written
TaskPanics(c, S) ==
    /\ SetSup(S)
    /\ srv' = [srv EXCEPT ![c].st = "closed", ![c].req = NoReq]
    /\ UNCHANGED <<wire, hist, service>>

\* one turn of the read loop after recv (lines 296-316)
ServerHandle(c) ==
    /\ service # "stopped"
    /\ srv[c].st = "handling"
    /\ \E id \in MsgIds :
         IF ~srv[c].req.ok
         THEN Respond(c, wrap_response(Err("Error parsing socket command")), id, Sup, FALSE)
         ELSE LET r == RunHandler(Sup, NewTask(srv[c].req.cmd, srv[c].req.body), now) IN
              IF r.T.pc = "panic"
              THEN TaskPanics(c, r.S)
              ELSE Respond(c, wrap_response(r.T.res), id, r.S, srv[c].req.cmd = "StopService")
    /\ UNCHANGED <<now, listener, cli, task>>

\* run_service: shutdown_rx.changed() wins the select and run_service
\* returns; the runtime is dropped and with it every session task, wherever
\* it stands
RunServiceShutdown ==
    /\ service = "signalled"
    /\ service' = "stopped"
    /\ listener' = 0
    /\ srv' = Teardown
    /\ UNCHANGED <<now, cli, wire, hist, supVars, task>>

\* Client::send's self.0.recv(): the next frame of the server, or EOF
ClientRecv(c) ==
    /\ cli[c].st = "ready"
    /\ IF wire[c] # <<>>
       THEN LET f == Head(wire[c])
                r == recv(cli[c], f, now, "wrap")
            IN
            /\ cli' = [cli EXCEPT ![c].last = r.res, ![c].seen_ids = r.seen_ids,
                                  ![c].got = IF r.res = "ok" THEN r.payload ELSE NoEnv,
                                  ![c].nread = @ + 1,
                                  ![c].age = now - Unwrap(f.cipher).plain.ts]
            /\ wire' = [wire EXCEPT ![c] = Tail(@)]
       ELSE /\ srv[c].st \in {"closed", "killed"}
            /\ cli[c].last # "eof"
            /\ cli' = [cli EXCEPT ![c].last = "eof", ![c].got = NoEnv]
            /\ UNCHANGED wire
    /\ UNCHANGED <<now, service, listener, srv, hist, supVars, task>>

\* the client drops its connection
ClientClose(c) ==
    /\ cli[c].st \in {"sent_pub", "ready"}
    /\ cli' = [cli EXCEPT ![c].st = "closed"]
    /\ UNCHANGED <<now, service, listener, srv, wire, hist, supVars, task>>

\* the core process ends on its own
CoreExits(p) ==
    /\ service # "stopped"
    /\ procs[p].st = "running"
    /\ procs' = [procs EXCEPT ![p].st = "exited"]
    /\ UNCHANGED <<now, chanVars, clash_status, ring, logged, log_config, life, files, mutex, mirror, task>>

\* the exit waiter of process p, from wait() returning to the thread's end
ExitWaiter(p) ==
    /\ service # "stopped"
    /\ WaiterReady(Sup, p)
    /\ \E mode \in OverflowModes : SetSup(RunWaiter(Sup, p, now, mode))
    /\ UNCHANGED <<now, chanVars, task>>

-----------------------------------------------------------------------------
(* Spec: the secure channel.  The peer may put any frame on the stream:    *)
(* sealed under its own key or another, fresh, old or ahead of the clock,  *)
(* with any message id, cut short, or a runt.  The payloads are a request  *)
(* that parses and one that does not.                                      *)

ChanInstants == {0, timestamp_window, timestamp_window + 1}
ChanPayloads == {JStr("GetVersion"), JInvalid}

\* timestamps on both sides of the window's two edges
TsChoices(t) == {x \in {t - timestamp_window - 1, t - timestamp_window, t, t + 1} : x >= 0}

ChanFrames(c) ==
    LET k == client_key(c, cli[c].psk) IN
    {SealedFrame(k, Plain(ts, id, pl)) : ts \in TsChoices(now), id \in MsgIds, pl \in ChanPayloads}
      \cup {SealedFrame(k, RuntPlain),
            SealedFrame(JunkKey, Plain(now, 1, JStr("GetVersion"))),
            Frame(NONCE_LEN - 1, TRUE, None),
            Frame(NONCE_LEN, TRUE, None),
            Frame(FRAME_LEN_OK, FALSE, Some(encrypt(k, Plain(now, 1, JStr("GetVersion"))))),
            EofFrame}

Next ==
    \/ TickIn(ChanInstants)
    \/ \E c \in ConnIds : ClientConnect(c, ClientPsks)
    \/ \E c \in ConnIds : Accept(c)
    \/ \E c \in ConnIds : handshake_server(c)
    \/ \E c \in ConnIds : HandshakeFails(c)
    \/ \E c \in ConnIds : handshake_client(c)
    \/ \E c \in ConnIds : ServerRecv(c, ChanFrames(c))
    \/ \E c \in ConnIds : ServerHandle(c)
    \/ \E c \in ConnIds : ClientRecv(c)
    \/ \E c \in ConnIds : ClientClose(c)

Spec == Init /\ [][Next]_vars

-----------------------------------------------------------------------------
(* SpecDisp: the dispatcher.  The peer holds the service's PSK and sends   *)
(* fresh frames; the payloads are every command and two that do not parse; *)
(* the exit waiter of a killed core runs once the handler has returned.    *)

DispInstants == {0, INTERVAL_TIME + 1}
DispBodies == {BodyA, BodyNoBin, BodyEmptyLog}
DispPayloads ==
    {JStr(tag) : tag \in UnitTags \cup {"Reboot"}}
        \cup {JObj("StartClash", b) : b \in DispBodies} \cup {JInvalid}

DispFrames(c) ==
    {SealedFrame(client_key(c, cli[c].psk), Plain(now, id, pl)) : id \in MsgIds, pl \in DispPayloads}

NextDisp ==
    \/ TickIn(DispInstants)
    \/ \E c \in ConnIds : ClientConnect(c, {Some(PSK)})
    \/ \E c \in ConnIds : Accept(c)
    \/ \E c \in ConnIds : handshake_server(c)
    \/ \E c \in ConnIds : HandshakeFails(c)
    \/ \E c \in ConnIds : handshake_client(c)
    \/ \E c \in ConnIds : ServerRecv(c, DispFrames(c))
    \/ \E c \in ConnIds : ServerHandle(c)
    \/ RunServiceShutdown
    \/ \E c \in ConnIds : ClientRecv(c)
    \/ \E c \in ConnIds : ClientClose(c)
    \/ \E p \in ProcIds : ExitWaiter(p)

SpecDisp == Init /\ [][NextDisp]_vars

-----------------------------------------------------------------------------
(* SpecAccept: the listener and the end of the service.  MaxListen clients *)
(* holding the service's PSK connect, send GetVersion and StopService in   *)
(* fresh frames, and may close at any time; an accept may fail with an I/O *)
(* error and the process may receive SIGINT.                               *)

AcceptPayloads == {JStr("GetVersion"), JStr("StopService")}

\* fresh sealed frames, and a frame that declares fewer bytes than a nonce
AcceptFrames(c) ==
    {SealedFrame(client_key(c, cli[c].psk), Plain(now, id, pl)) : id \in MsgIds, pl \in AcceptPayloads}
        \cup {Frame(NONCE_LEN - 1, TRUE, None)}

NextAccept ==
    \/ \E c \in Conns : ClientConnect(c, {Some(PSK)})
    \/ \E c \in Conns : Accept(c)
    \/ \E c \in Conns : handshake_server(c)
    \/ \E c \in Conns : HandshakeFails(c)
    \/ \E c \in Conns : handshake_client(c)
    \/ \E c \in Conns : ServerRecv(c, AcceptFrames(c))
    \/ \E c \in Conns : ServerHandle(c)
    \/ RunServiceShutdown
    \/ Interrupt
    \/ AcceptError
    \/ \E c \in Conns : ClientRecv(c)
    \/ \E c \in Conns : ClientClose(c)

SpecAccept == Init /\ [][NextAccept]_vars

-----------------------------------------------------------------------------
(* SpecSup: the supervisor.  Requests arrive on established sessions; a    *)
(* handler and an exit waiter take one lock scope per step, so that they   *)
(* interleave as the threads of the service do.  A core may exit at any    *)
(* time.                                                                   *)

SupInstants == {0, INTERVAL_TIME + 1}
SupBodies == {BodyA, BodyNoBin}
SupCommands == {"StartClash", "StopClash", "GetClash"}

\* a session hands the next request to handle_socket_command
SupRequest(h) ==
    /\ task[h].pc = "idle"
    /\ task[h].n < MaxRequests
    /\ \E cmd \in SupCommands :
       \E body \in IF cmd = "StartClash" THEN SupBodies ELSE {BodyA} :
          task' = [task EXCEPT ![h] = [NewTask(cmd, body) EXCEPT !.n = task[h].n + 1]]
    /\ UNCHANGED <<now, chanVars, supVars>>

\* the handler of task h takes its next lock scope
SupHandler(h) ==
    /\ ~HandlerDone(task[h])
    /\ LET r == HandlerStep(Sup, task[h], now) IN
          /\ SetSup(IF HandlerDone(r.T) THEN [r.S EXCEPT !.life.from_zero = FALSE] ELSE r.S)
          /\ task' = [task EXCEPT ![h] = r.T]
    /\ UNCHANGED <<now, chanVars>>

\* the handler has returned (or its task has panicked): the turn ends
SupReturn(h) ==
    /\ task[h].pc \in {"ret", "panic"}
    /\ task' = [task EXCEPT ![h] = [NoTask EXCEPT !.n = task[h].n]]
    /\ UNCHANGED <<now, chanVars, supVars>>

\* the exit waiter of process p takes its next lock scope
SupWaiter(p) ==
    /\ WaiterReady(Sup, p)
    /\ \E mode \in IF procs[p].wpc = "dec" /\ clash_status.restart_retry_count = 0
                   THEN OverflowModes ELSE {"wrap"} :
          SetSup(WaiterStep(Sup, p, now, mode))
    /\ UNCHANGED <<now, chanVars, task>>

NextSup ==
    \/ TickIn(SupInstants)
    \/ \E h \in TaskIds : SupRequest(h)
    \/ \E h \in TaskIds : SupHandler(h)
    \/ \E h \in TaskIds : SupReturn(h)
    \/ \E p \in ProcIds : CoreExits(p)
    \/ \E p \in ProcIds : SupWaiter(p)

SpecSup == Init /\ [][NextSup]_vars

-----------------------------------------------------------------------------
(* SpecLife: the supervisor over a longer run of requests.  A session sends *)
(* up to MaxLifeRequests StartClash, StopClash and GetClash requests; the  *)
(* threads interleave as in SpecSup; a core exits on its own at most       *)
(* MaxLifeExits times in one lifetime, and a running core started with a   *)
(* socket_path binds its socket file.                                      *)

LifeInstants == {0, 1}
LifeBodies == {BodyA, BodyNoBin}
LifeCommands == {"StartClash", "StopClash", "GetClash"}

\* a session hands the next request to handle_socket_command
LifeRequest(h) ==
    /\ task[h].pc = "idle"
    /\ task[h].n < MaxLifeRequests
    /\ \E cmd \in LifeCommands :
       \E body \in IF cmd = "StartClash" THEN LifeBodies ELSE {BodyA} :
          task' = [task EXCEPT ![h] = [NewTask(cmd, body) EXCEPT !.n = task[h].n + 1]]
    /\ UNCHANGED <<now, chanVars, supVars>>

\* the core process ends on its own
LifeCoreExits(p) ==
    /\ life.respawns < MaxLifeExits
    /\ CoreExits(p)

\* the core binds the socket it was started with (-ext-ctl-unix): the file
\* exists from then on, also after the core is gone
CoreBinds(p) ==
    /\ procs[p].st = "running"
    /\ procs[p].body.socket_path # None
    /\ Unwrap(procs[p].body.socket_path) \notin files
    /\ files' = files \cup {Unwrap(procs[p].body.socket_path)}
    /\ UNCHANGED <<now, chanVars, clash_status, procs, ring, logged, log_config, life, mutex, mirror, task>>

NextLife ==
    \/ TickIn(LifeInstants)
    \/ \E h \in TaskIds : LifeRequest(h)
    \/ \E h \in TaskIds : SupHandler(h)
    \/ \E h \in TaskIds : SupReturn(h)
    \/ \E p \in ProcIds : LifeCoreExits(p)
    \/ \E p \in ProcIds : CoreBinds(p)
    \/ \E p \in ProcIds : SupWaiter(p)

SpecLife == Init /\ [][NextLife]_vars

-----------------------------------------------------------------------------
(* SpecLog: the log ring.  A running core writes lines to its stdout pipe *)
(* (MaxOut bounds them); the reader thread run_core started for it moves   *)
(* them to the ring one at a time, also after the core is dead, until the  *)
(* pipe is empty.  A session sends StartClash, StopClash and GetLogs; the  *)
(* threads interleave as in SpecSup.                                       *)

LogCommands == {"StartClash", "StopClash", "GetLogs"}

\* a session hands the next request to handle_socket_command
LogRequest(h) ==
    /\ task[h].pc = "idle"
    /\ task[h].n < MaxRequests
    /\ \E cmd \in LogCommands :
          task' = [task EXCEPT ![h] = [NewTask(cmd, BodyA) EXCEPT !.n = task[h].n + 1]]
    /\ UNCHANGED <<now, chanVars, supVars>>

\* the lines written by the processes procs holds
RECURSIVE TotalOut(_)
TotalOut(n) == IF n = 0 THEN 0 ELSE procs[n].nout + TotalOut(n - 1)

\* the core prints a line
CoreWrites(p) ==
    /\ procs[p].st = "running"
    /\ TotalOut(MaxProcs) < MaxOut
    /\ procs' = [procs EXCEPT ![p].nout = @ + 1, ![p].pipe = @ + 1]
    /\ UNCHANGED <<now, chanVars, clash_status, ring, logged, log_config, life, files, mutex, mirror, task>>

\* the reader thread of process p reads a line and logs it
ReadStdout(p) ==
    /\ procs[p].wpc # "none"
    /\ procs[p].pipe > 0
    /\ SetSup(reader_step(Sup, p))
    /\ UNCHANGED <<now, chanVars, task>>

NextLog ==
    \/ \E h \in TaskIds : LogRequest(h)
    \/ \E h \in TaskIds : SupHandler(h)
    \/ \E h \in TaskIds : SupReturn(h)
    \/ \E p \in ProcIds : LifeCoreExits(p)
    \/ \E p \in ProcIds : SupWaiter(p)
    \/ \E p \in ProcIds : CoreWrites(p)
    \/ \E p \in ProcIds : ReadStdout(p)

SpecLog == Init /\ [][NextLog]_vars

-----------------------------------------------------------------------------
(* Properties of the secure channel, checked under Spec                    *)

ReplayMsg == "replay attack: duplicate message ID"
StaleMsg == "replay attack: old timestamp"
AeadMsg == "decrypt failed"

\* the read task ended on its last frame: nothing was dispatched, nothing
\* was written, the session is over
SessionEndedSilently(c) ==
    /\ hist[c].last.res # "ok"
    /\ srv[c].st = "closed"
    /\ Len(hist[c].reqs) = hist[c].last.nreq
    /\ Len(hist[c].resps) = hist[c].last.nresp

\* C1: in a session no message id is handed to the dispatcher twice, and a
\* frame under the session key whose id was already seen makes recv fail
\* and ends the session with no reply.
C1_NoIdAcceptedTwice ==
    \A c \in ConnIds :
        /\ \A i, j \in DOMAIN hist[c].reqs :
              i # j => hist[c].reqs[i].msg_id # hist[c].reqs[j].msg_id
        /\ hist[c].last.dup => SessionEndedSilently(c)

\* a fresh frame replaying the id of a request that was answered is refused
C1_Witness ==
    \E c \in ConnIds :
        /\ hist[c].last.dup
        /\ hist[c].last.age = 0
        /\ hist[c].last.why = ReplayMsg
        /\ Len(hist[c].resps) = 1
        /\ srv[c].st = "closed"

\* C2: a frame that is not a whole length-framed AEAD ciphertext under the
\* session key (bad tag, cut short, sealed under another key) makes recv
\* fail; the server writes nothing for it and the read loop ends.
C2_InvalidFrameEndsSession ==
    \A c \in ConnIds :
        (hist[c].last.res # "none" /\ ~hist[c].last.valid) => SessionEndedSilently(c)

\* after one answered request, a frame that fails AEAD verification
C2_Witness ==
    \E c \in ConnIds :
        /\ ~hist[c].last.valid
        /\ hist[c].last.why = AeadMsg
        /\ cli[c].psk = ServerPsk
        /\ Len(hist[c].resps) = 1
        /\ srv[c].st = "closed"

C4_PskMismatch ==
    \A c \in ConnIds :
        (cli[c].psk # ServerPsk /\ cli[c].st \in {"ready", "closed"} /\ srv[c].pub_sent) =>
            /\ cli[c].st = "ready" => cli[c].key # srv[c].key
            /\ hist[c].reqs = <<>> /\ hist[c].resps = <<>> /\ wire[c] = <<>>
            /\ hist[c].last.res # "none" =>
                  /\ SessionEndedSilently(c)
                  /\ hist[c].last.why \notin {StaleMsg, ReplayMsg}
            /\ cli[c].last \in {"none", "eof"}

\* the exchange completed, the first frame failed AEAD, the client read EOF
C4_Witness ==
    \E c \in ConnIds :
        /\ cli[c].psk = Some("wrong")
        /\ cli[c].st = "ready" /\ srv[c].pub_sent
        /\ hist[c].last.why = AeadMsg
        /\ hist[c].last.nreq = 0
        /\ srv[c].st = "closed"
        /\ cli[c].last = "eof"

\* the read task of session c has finished the turn of request i (it was
\* not dropped in the middle of it) while the client was still connected
Served(c, i) ==
    /\ i \in DOMAIN hist[c].reqs
    /\ i < Len(hist[c].reqs) \/ srv[c].st \in {"reading", "closed"}
    /\ cli[c].st # "closed"

VersionEnvelope ==
    [code |-> 0, msg |-> "ok",
     data |-> [version |-> CARGO_PKG_VERSION, service |-> "Clash Verge Self Service"]]

\* C5: with equal PSKs both ends derive the same key; a GetVersion sent as
\* the first frame gets exactly one envelope, {code 0, msg "ok", data
\* {version, service "Clash Verge Self Service"}}, and the client's recv
\* accepts that envelope when it reads it within timestamp_window.
C5_GetVersionAnswered ==
    \A c \in ConnIds :
        (cli[c].psk = ServerPsk /\ cli[c].st \in {"ready", "closed"} /\ srv[c].pub_sent) =>
            /\ cli[c].st = "ready" => cli[c].key = srv[c].key
            /\ (Len(hist[c].reqs) >= 1 /\ hist[c].reqs[1].payload = JStr("GetVersion")) =>
                  /\ Served(c, 1) => Len(hist[c].resps) >= 1
                  /\ Len(hist[c].resps) >= 1 =>
                        /\ hist[c].resps[1].msg_id = hist[c].reqs[1].msg_id
                        /\ hist[c].resps[1].env = VersionEnvelope
                  /\ Len(hist[c].resps) <= Len(hist[c].reqs)
                  /\ (cli[c].nread = 1 /\ cli[c].last # "eof" /\ cli[c].age <= timestamp_window) =>
                        cli[c].last = "ok" /\ cli[c].got = VersionEnvelope

\* the client has read and accepted the envelope of its first request
C5_Witness ==
    \E c \in ConnIds :
        /\ cli[c].psk = ServerPsk
        /\ Len(hist[c].reqs) = 1
        /\ hist[c].reqs[1].payload = JStr("GetVersion")
        /\ Len(hist[c].resps) = 1
        /\ cli[c].nread = 1
        /\ cli[c].last = "ok"
        /\ cli[c].got = VersionEnvelope

-----------------------------------------------------------------------------
(* Properties of the dispatcher, checked under SpecDisp                    *)

\* C6: a session handles one request at a time in arrival order: the
\* envelope of a request is written before the next request is read, at
\* most one request is unanswered at any time, and every envelope written
\* answers the request read at its position.
C6_OneRequestAtATime ==
    \A c \in ConnIds :
        /\ Len(hist[c].resps) <= Len(hist[c].reqs)
        /\ Len(hist[c].reqs) <= Len(hist[c].resps) + 1
        /\ Len(hist[c].reqs) = Len(hist[c].resps) + 1 =>
              srv[c].st \in {"handling", "closed", "killed"}
        /\ \A i \in DOMAIN hist[c].resps :
              hist[c].resps[i].msg_id = hist[c].reqs[i].msg_id
        /\ Len(wire[c]) <= Len(hist[c].resps)

\* two requests were read and both answered
C6_Witness ==
    \E c \in ConnIds :
        /\ Len(hist[c].reqs) = 2
        /\ Len(hist[c].resps) = 2
        /\ hist[c].reqs[1].payload # hist[c].reqs[2].payload

\* request i is the last thing session c took from its stream, and the
\* service has not been told to stop
OpenAfter(c, i) ==
    /\ i = Len(hist[c].reqs)
    /\ hist[c].last.res = "ok"
    /\ service = "running"

\* C7: every StartClash, whatever string its log_file is, gets exactly one
\* envelope, with code 400 and data null when the handler failed, and the
\* session stays open for the next request.
C7_StartClashAnswered ==
    \A c \in ConnIds : \A i \in DOMAIN hist[c].reqs :
        (Served(c, i) /\ hist[c].reqs[i].payload.s = "StartClash") =>
            /\ i \in DOMAIN hist[c].resps
            /\ hist[c].resps[i].env.code \in {0, 400}
            /\ hist[c].resps[i].env.code = 400 => hist[c].resps[i].env.data = JNull
            /\ OpenAfter(c, i) => srv[c].st = "reading"

\* the payloads of DispPayloads that are no SocketCommand
BadPayloads == {JInvalid, JStr("Reboot")}

\* C8: a decrypted payload that is no SocketCommand (no JSON at all, or an
\* unknown variant) gets exactly one envelope, with code 400, and the
\* session goes on reading.
C8_ParseErrorAnswered ==
    \A c \in ConnIds : \A i \in DOMAIN hist[c].reqs :
        (Served(c, i) /\ hist[c].reqs[i].payload \in BadPayloads) =>
            /\ i \in DOMAIN hist[c].resps
            /\ hist[c].resps[i].env.code = 400
            /\ hist[c].resps[i].env.data = JNull
            /\ Len(hist[c].resps) <= Len(hist[c].reqs)
            /\ OpenAfter(c, i) => srv[c].st = "reading"

\* a payload that does not parse was answered with 400, and the request
\* after it was served
C8_Witness ==
    \E c \in ConnIds :
        /\ Len(hist[c].reqs) = 2
        /\ hist[c].reqs[1].payload \in BadPayloads
        /\ Len(hist[c].resps) = 2
        /\ hist[c].resps[1].env.code = 400
        /\ hist[c].resps[2].env.code = 0

-----------------------------------------------------------------------------
(* Properties of the supervisor, checked under SpecSup                     *)

RetryExceededMsg == "clash not executed, retry count exceeded!"
NotExecutedMsg == "clash not executed"

\* C9: once an exit waiter has found the retry budget exhausted (and logged
\* "retry count exceeded"), the waiters have respawned the core exactly
\* DEFAULT_RETRY_COUNT times since the count was last set to
\* DEFAULT_RETRY_COUNT, and get_clash fails with the "retry count
\* exceeded" message until a StartClash or StopClash resets ClashStatus.
C9_RetryBudget ==
    life.exceeded =>
        /\ life.respawns = DEFAULT_RETRY_COUNT
        /\ get_clash(clash_status) = Err(RetryExceededMsg)

\* a waiter gave the stable-run credit with auto_restart still set and has
\* recorded the core it respawned; no other waiter has written the count
\* and no stop_clash has reset ClashStatus since
CreditedRespawnDone == life.credit_by # 0 /\ life.credit_done

\* C10 (as the code has it): after an exit that ended a run longer than
\* INTERVAL_TIME with auto_restart set, once the exit waiter has respawned
\* the core, GetClash reports restart_retry_count = DEFAULT_RETRY_COUNT - 1
\* (the waiter sets the count to 10, then decrements it for the respawn it
\* makes), as long as auto_restart was still set at the waiter's reset and
\* until another waiter, a StartClash or a StopClash writes the count.
C10_CreditThenDecrement ==
    CreditedRespawnDone =>
        /\ get_clash(clash_status).ok
        /\ Unwrap(get_clash(clash_status).data).restart_retry_count = DEFAULT_RETRY_COUNT - 1

\* C10 (as stated): in the same states GetClash reports
\* restart_retry_count = DEFAULT_RETRY_COUNT.
C10_ReportsDefault ==
    CreditedRespawnDone =>
        /\ get_clash(clash_status).ok
        /\ Unwrap(get_clash(clash_status).data).restart_retry_count = DEFAULT_RETRY_COUNT

\* a GetClash handled after the credited respawn has returned the snapshot
C10_Witness ==
    \E h \in TaskIds :
        /\ CreditedRespawnDone
        /\ task[h].pc = "ret"
        /\ task[h].cmd = "GetClash"
        /\ task[h].res = get_clash(clash_status)
        /\ task[h].res.ok
        /\ Unwrap(task[h].res.data).restart_retry_count = DEFAULT_RETRY_COUNT - 1
        /\ now - clash_status.last_running_time <= INTERVAL_TIME

\* the message of get_clash's arm (Some(_), true), handle.rs line 217
TerminatedMsg == "clash terminated, retry count exceeded!"

\* what get_clash returns on success: the serialized ClashStatus
Snapshot(st) ==
    [auto_restart |-> st.auto_restart, restart_retry_count |-> st.restart_retry_count,
     last_running_time |-> st.last_running_time, info |-> st.info]

\* C12: get_clash returns the snapshot exactly when info is Some and
\* restart_retry_count > 0; it fails with "clash not executed" when info is
\* None and with "clash terminated, retry count exceeded" when the count is
\* 0 (either of the two when both hold).
C12_GetClashCases ==
    LET st == clash_status
        r  == get_clash(st)
    IN  /\ r.ok <=> (st.info # None /\ st.restart_retry_count > 0)
        /\ r.ok => r.data = Some(Snapshot(st))
        /\ (st.info = None /\ st.restart_retry_count > 0) => r = Err(NotExecutedMsg)
        /\ (st.info # None /\ st.restart_retry_count = 0) => r = Err(TerminatedMsg)
        /\ (st.info = None /\ st.restart_retry_count = 0) =>
              (~r.ok /\ r.msg \in {NotExecutedMsg, TerminatedMsg})

\* C14: every step that changes restart_retry_count either decrements it by
\* one or sets it to DEFAULT_RETRY_COUNT (the reset inside stop_clash and the
\* exit waiter's reset after a run longer than INTERVAL_TIME): between two
\* resets the count never increases.
C14_CountSteps ==
    [][clash_status'.restart_retry_count # clash_status.restart_retry_count =>
          \/ clash_status'.restart_retry_count = clash_status.restart_retry_count - 1
          \/ clash_status'.restart_retry_count = DEFAULT_RETRY_COUNT]_vars

-----------------------------------------------------------------------------
(* Properties of the core's lifecycle, checked under SpecLife              *)

\* the messages of get_clash that begin with "clash not executed"
NotExecutedMsgs == {NotExecutedMsg, RetryExceededMsg}

C13_InfoIffStarted ==
    \A h \in TaskIds :
        (task[h].pc = "ret" /\ task[h].cmd = "StartClash") =>
            IF task[h].res.ok
            THEN clash_status.info = Some(task[h].body)
            ELSE /\ clash_status.info = None
                 /\ get_clash(clash_status) = Err(NotExecutedMsg)

\* the fields of ClashStatus other than last_running_time, which every
\* ClashStatus::default() sets to the time of the call
StatusButTime(st) ==
    [auto_restart |-> st.auto_restart, restart_retry_count |-> st.restart_retry_count,
     child |-> st.child, info |-> st.info]

\* C15: a StopClash handled when stop_clash has already reset ClashStatus and
\* no StartClash has come since is answered Ok like the first, finds no
\* child to kill, and leaves ClashStatus (but for last_running_time), the
\* processes and the log ring as they were.
C15_StopIdempotent ==
    [][\A h \in TaskIds :
          (task[h].cmd = "StopClash" /\ life.stopped) =>
              /\ (task[h].pc = "stop_lock" /\ task'[h].pc = "stop_kill") =>
                    /\ clash_status.child = 0
                    /\ StatusButTime(clash_status') = StatusButTime(clash_status)
                    /\ procs' = procs
              /\ (task[h].pc = "stop_kill" /\ task'[h].pc # "stop_kill") => ring' = ring
              /\ (task[h].pc # "ret" /\ task'[h].pc = "ret") => task'[h].res = OkUnit]_vars

\* C16: when a StopClash that found the socket_path P of a started core in
\* ClashStatus.info has returned, no file exists at P.
C16_SocketFileGone ==
    \A h \in TaskIds :
        (task[h].pc = "ret" /\ task[h].cmd = "StopClash" /\ task[h].sock # None) =>
            Unwrap(task[h].sock) \notin files

-----------------------------------------------------------------------------
(* Properties of the listener and of the end of the service, checked under *)
(* SpecAccept                                                              *)

\* the read task of connection c accepted a StopService request
StopAccepted(c) ==
    \E i \in DOMAIN hist[c].reqs : hist[c].reqs[i].payload = JStr("StopService")

\* run_service returned through the shutdown_rx or the ctrl_c branch
EndedBySignal == service = "stopped" /\ listener = 0

\* C17: a session that accepted StopService and whose read task has ended
\* wrote the {code 0, "ok", null} envelope as its last response and fired
\* the shutdown signal; once the service has stopped no connection is in
\* the accept loop's hands.
C17_StopServiceSignals ==
    /\ \A c \in Conns :
          (StopAccepted(c) /\ srv[c].st = "closed") =>
              /\ service \in {"signalled", "stopped"}
              /\ Len(hist[c].resps) = Len(hist[c].reqs)
              /\ hist[c].resps[Len(hist[c].resps)].env = to_json(wrap_response(OkUnit))
    /\ service = "stopped" => listener \notin Conns

\* C18: after a connection whose handshake failed, the service has stopped
\* only through the shutdown signal or SIGINT.
C18_ListenerSurvivesHandshake ==
    (\E c \in Conns : srv[c].st = "hs_failed") =>
        (service = "stopped" => EndedBySignal)

\* C19: the service never stops because the listener returned an I/O error
\* for one accept.
C19_AcceptErrorSkipped == ~(service = "stopped" /\ listener = LoopPanicked)

\* C20: when the service has stopped through the shutdown signal or SIGINT,
\* every request a session had accepted from a peer that is still connected
\* has its response written.
C20_InFlightDrained ==
    EndedBySignal =>
        \A c \in Conns :
            cli[c].st # "closed" => Len(hist[c].resps) = Len(hist[c].reqs)

-----------------------------------------------------------------------------
(* The acceptance window towards the future, checked under Spec            *)

\* C21: a decrypted message stamped more than timestamp_window ahead of the
\* receiver's clock is rejected, and one stamped ahead by at most
\* timestamp_window passes the timestamp check (it is accepted unless its id
\* was seen).
C21_WindowSymmetric ==
    \A c \in ConnIds :
        /\ (hist[c].last.valid /\ 0 - hist[c].last.age > timestamp_window)
              => hist[c].last.res = "err"
        /\ (hist[c].last.valid /\ hist[c].last.age < 0
               /\ 0 - hist[c].last.age <= timestamp_window /\ ~hist[c].last.dup)
              => hist[c].last.res = "ok"

-----------------------------------------------------------------------------
(* The codec, checked under SpecDisp on the commands the sessions parse    *)
(* and the envelopes their handlers are about to send                      *)

\* C22: decoding the JSON encoding gives back every command a session has
\* parsed and every response envelope its handler produces.
C22_RoundTrip ==
    \A c \in ConnIds :
        (srv[c].st = "handling" /\ srv[c].req.ok) =>
            LET cmd == srv[c].req.cmd
                body == srv[c].req.body
                r == RunHandler(Sup, NewTask(cmd, body), now)
                env == wrap_response(r.T.res)
            IN  /\ parse_command(command_json(cmd, body)) = [ok |-> TRUE, cmd |-> cmd, body |-> body]
                /\ r.T.pc # "panic" => from_json(to_json(env)) = env

-----------------------------------------------------------------------------
(* Properties of the log ring, checked under SpecLog                       *)

\* the last min(k, N) of the k lines appended since the last clear, oldest
\* first
LastLines ==
    LET k == Len(logged)
        m == IF k < MaxLogLines THEN k ELSE MaxLogLines
    IN  SubSeq(logged, k - m + 1, k)

\* C23: the ring never holds more than N lines, and it holds, oldest first,
\* exactly the last min(k, N) of the k lines appended since the most recent
\* clear; that is what a GetLogs about to run returns.
C23_RingHoldsLastLines ==
    /\ Len(ring) <= MaxLogLines
    /\ ring = LastLines
    /\ \A h \in TaskIds :
          (task[h].pc = "call" /\ task[h].cmd = "GetLogs") =>
              HandlerStep(Sup, task[h], now).T.res.data = Some([lines |-> LastLines])

\* more than N lines were appended since the last clear, by two cores, and
\* the oldest was dropped
C23_Witness ==
    /\ Len(logged) > MaxLogLines
    /\ Len(ring) = MaxLogLines
    /\ ring[1].p # ring[MaxLogLines].p
    /\ \E h \in TaskIds : task[h].pc = "ret" /\ task[h].cmd = "GetLogs"
                             /\ task[h].res.data = Some([lines |-> ring])

\* C24: no line in the ring was read from the stdout of a core spawned
\* before the ring was last cleared (by stop_clash or by the exit waiter's
\* restart attempt).
C24_NoLineOfEarlierChild ==
    \A i \in DOMAIN ring : ~procs[ring[i].p].old

-----------------------------------------------------------------------------
(* Properties of the supervised processes, checked under SpecSup and       *)
(* SpecLife                                                                *)

\* the processes spawned by the supervisor that are alive
Alive == {p \in ProcIds : procs[p].st = "running"}

\* a thread is inside run_core, between SharedChild::spawn and the lock
\* scope that stores the child
Recording ==
    \/ \E h \in TaskIds : task[h].pc = "record"
    \/ \E p \in ProcIds : procs[p].wpc = "record"

\* C25: at most one process spawned by the supervisor is alive, and outside
\* run_core's own step from spawn to storing the child, a process that is
\* alive is the one ClashStatus.child refers to.
C25_OneCoreAlive ==
    /\ Cardinality(Alive) <= 1
    /\ ~Recording => \A p \in Alive : clash_status.child = p

\* C26: whenever an exit waiter spawns a core, it launches it with the
\* StartBody that ClashStatus.info holds at that moment.
C26_RespawnsStoredBody ==
    [][\A p \in ProcIds :
          (procs[p].wpc = "spawn" /\ procs'[p].wpc = "record") =>
              clash_status.info = Some(procs'[procs'[p].newp].body)]_vars

\* C27: once a StopClash has returned and until the next StartClash is
\* handled, no process spawned by the supervisor is running.
C27_StoppedStaysStopped ==
    (life.stopped /\ \A h \in TaskIds : task[h].pc \in {"idle", "ret"}) => Alive = {}

\* C28: restart_retry_count stays within 0..DEFAULT_RETRY_COUNT, and no exit
\* waiter dies on the underflow of its decrement.
C28_CountInRange ==
    /\ clash_status.restart_retry_count \in 0..DEFAULT_RETRY_COUNT
    /\ ~life.lost

\* C29: when ClashStatus.child is Some, the process it refers to was
\* spawned by the supervisor and has not been reaped.
C29_ChildNotReaped ==
    clash_status.child # 0 => procs[clash_status.child].st \in {"running", "exited"}

-----------------------------------------------------------------------------
(* SpecSlow: the accept loop and a slow peer.  A peer may connect and send *)
(* its handshake key later, or never; the other clients hold the service's *)
(* PSK, connect and send GetVersion.  The accept loop, the session tasks   *)
(* and the clients that have sent their key are scheduled fairly; nothing  *)
(* makes the slow peer send its key.                                       *)

\* a peer connects to the endpoint and does not write its public key yet
SlowConnect(c) ==
    /\ service # "stopped"
    /\ cli[c].st = "idle"
    /\ cli' = [cli EXCEPT ![c].st = "connected", ![c].psk = Some(PSK)]
    /\ srv' = [srv EXCEPT ![c].st = "queued"]
    /\ UNCHANGED <<now, service, listener, wire, hist, supVars, task>>

\* the slow peer writes its 32-byte public key at last
SendKey(c) ==
    /\ cli[c].st = "connected"
    /\ cli' = [cli EXCEPT ![c].st = "sent_pub"]
    /\ UNCHANGED <<now, service, listener, srv, wire, hist, supVars, task>>

SlowFrames(c) ==
    {SealedFrame(client_key(c, cli[c].psk), Plain(now, id, JStr("GetVersion"))) : id \in MsgIds}

NextSlow ==
    \/ \E c \in Conns : ClientConnect(c, {Some(PSK)})
    \/ \E c \in Conns : SlowConnect(c)
    \/ \E c \in Conns : SendKey(c)
    \/ \E c \in Conns : Accept(c)
    \/ \E c \in Conns : handshake_server(c)
    \/ \E c \in Conns : handshake_client(c)
    \/ \E c \in Conns : ServerRecv(c, SlowFrames(c))
    \/ \E c \in Conns : ServerHandle(c)
    \/ \E c \in Conns : ClientRecv(c)

\* the tokio runtime polls the accept loop and every session task that can
\* make progress; a client that has sent its key goes on to read
SlowFairness ==
    \A c \in Conns :
        /\ WF_vars(Accept(c))
        /\ WF_vars(handshake_server(c))
        /\ WF_vars(handshake_client(c))
        /\ WF_vars(ServerRecv(c, SlowFrames(c)))
        /\ WF_vars(ServerHandle(c))
        /\ WF_vars(ClientRecv(c))

SpecSlow == Init /\ [][NextSlow]_vars /\ SlowFairness

\* C31: a client that has sent its handshake key completes the handshake
\* and reads the response to its request, whether or not another connected
\* peer ever sends its key.
C31_SlowPeerDoesNotBlock ==
    \A c \in Conns : (cli[c].st = "sent_pub") ~> (cli[c].st = "ready" /\ cli[c].nread >= 1)

-----------------------------------------------------------------------------
(* Sessions side by side, checked under SpecAccept                         *)

\* the replay state of a SecureChannel
ChannelState(ch) ==
    [key |-> ch.key, seen_ids |-> ch.seen_ids, timestamp_window |-> ch.timestamp_window]

\* the message ids session c has accepted
AcceptedIds(h) == {h.reqs[i].msg_id : i \in DOMAIN h.reqs}

\* C32: replay state is per session.  After every step the seen-ID set of a
\* session holds exactly the ids that session accepted, so a fresh frame
\* under the session key is refused only for an id of its own session,
\* whatever ids the other sessions accepted; and a step that changes the
\* key, seen-ID set or timestamp window of a session is that session's own
\* handshake or recv and leaves the other sessions' unchanged.
C32_ReplayStatePerSession ==
    [][\A c \in Conns :
          /\ srv'[c].seen_ids = AcceptedIds(hist'[c])
          /\ (hist'[c].last # hist[c].last /\ hist'[c].last.valid) =>
                /\ hist'[c].last.dup <=> hist'[c].last.res # "ok"
                /\ hist'[c].last.dup <=> (AcceptedIds(hist'[c]) = AcceptedIds(hist[c]))
          /\ ChannelState(srv'[c]) # ChannelState(srv[c]) =>
                /\ handshake_server(c) \/ ServerRecv(c, AcceptFrames(c))
                /\ \A d \in Conns \ {c} : ChannelState(srv'[d]) = ChannelState(srv[d])]_vars

\* two sessions are open and each has accepted the same message id
C32_Witness ==
    \E c, d \in Conns :
        /\ c # d
        /\ srv[c].st = "reading" /\ srv[d].st = "reading"
        /\ srv[c].key # srv[d].key
        /\ hist[c].reqs # <<>> /\ hist[d].reqs # <<>>
        /\ hist[c].reqs[1].msg_id = hist[d].reqs[1].msg_id
        /\ srv[c].seen_ids = srv[d].seen_ids

\* what recv dies of on a frame shorter than its nonce
SplitAtMsg == "split_at: mid > len"

\* C33: a frame whose declared length is below 24 ends the session that
\* read it, with nothing dispatched and nothing written; the step leaves
\* the accept loop, the service, every other session and the supervisor
\* state as they were.
C33_ShortFrameEndsOnlySession ==
    [][\A c \in Conns :
          (hist'[c].last # hist[c].last /\ hist'[c].last.why = SplitAtMsg) =>
              /\ srv'[c].st = "closed"
              /\ hist'[c].reqs = hist[c].reqs /\ hist'[c].resps = hist[c].resps
              /\ wire' = wire
              /\ listener' = listener /\ service' = service
              /\ \A d \in Conns \ {c} : srv'[d] = srv[d] /\ hist'[d] = hist[d]
              /\ supVars' = supVars]_vars

\* a session was ended by such a frame while another session was open;
\* that one was answered afterwards and is still open
C33_Witness ==
    \E c, d \in Conns :
        /\ c # d
        /\ hist[c].last.why = SplitAtMsg
        /\ srv[c].st = "closed"
        /\ hist[c].resps = <<>>
        /\ service = "running"
        /\ srv[d].st = "reading"
        /\ Len(hist[d].resps) = 2

-----------------------------------------------------------------------------
(* The end of the service and the core, checked under SpecDisp             *)

\* session c has handled a StopService: its envelope is written
StopServiceHandled(c) ==
    \E i \in DOMAIN hist[c].resps : hist[c].reqs[i].payload = JStr("StopService")

\* C34: once the service has stopped after handling a StopService, no core
\* spawned by the supervisor is alive and ClashStatus is in its reset state
\* (no child, auto_restart false, info None, the full retry count).
C34_StopServiceStopsCore ==
    (service = "stopped" /\ \E c \in ConnIds : StopServiceHandled(c)) =>
        /\ Alive = {}
        /\ clash_status.child = 0
        /\ ~clash_status.auto_restart
        /\ clash_status.info = None
        /\ clash_status.restart_retry_count = DEFAULT_RETRY_COUNT

-----------------------------------------------------------------------------
(* SpecRespawn: SpecLife, and SharedChild::spawn may fail when an exit     *)
(* waiter restarts the core (the binary was replaced or removed, the       *)
(* process table is full).                                                 *)

\* the exit waiter's run_core(body_clone) returns Err (line 131): the error
\* is logged (line 132) and the thread ends
RespawnFails(p) ==
    /\ procs[p].wpc = "spawn"
    /\ SetSup(waiter_end(clear_log(Sup), p))
    /\ UNCHANGED <<now, chanVars, task>>

NextRespawn ==
    \/ TickIn(LifeInstants)
    \/ \E h \in TaskIds : LifeRequest(h)
    \/ \E h \in TaskIds : SupHandler(h)
    \/ \E h \in TaskIds : SupReturn(h)
    \/ \E p \in ProcIds : LifeCoreExits(p)
    \/ \E p \in ProcIds : CoreBinds(p)
    \/ \E p \in ProcIds : SupWaiter(p)
    \/ \E p \in ProcIds : RespawnFails(p)

SpecRespawn == Init /\ [][NextRespawn]_vars

\* C35: when get_clash would succeed for a core whose binary start_clash
\* could spawn, and no handler is between its first and last lock scope,
\* a core is alive or an exit waiter is on its way from wait() to the end
\* of its thread (without either, nothing respawns the core).
C35_CoreRunningOrRespawned ==
    (/\ get_clash(clash_status).ok
     /\ Spawnable(Unwrap(clash_status.info).bin_path)
     /\ \A h \in TaskIds : task[h].pc \in {"idle", "ret"})
        => (Alive # {} \/ \E p \in ProcIds : WaiterReady(Sup, p))

-----------------------------------------------------------------------------
(* Recovery from an exhausted retry budget, checked under SpecSup          *)

\* C36: when a StartClash whose stop_clash found restart_retry_count = 0
\* returns Ok, restart_retry_count is DEFAULT_RETRY_COUNT, auto_restart is
\* true, info holds its body, and get_clash succeeds.
C36_ExhaustionRecoverable ==
    [][\A h \in TaskIds :
          (/\ task[h].cmd = "StartClash"
           /\ task[h].pc # "ret" /\ task'[h].pc = "ret"
           /\ task'[h].res.ok
           /\ life.from_zero) =>
              /\ clash_status'.restart_retry_count = DEFAULT_RETRY_COUNT
              /\ clash_status'.auto_restart
              /\ clash_status'.info = Some(task[h].body)
              /\ get_clash(clash_status').ok]_vars

-----------------------------------------------------------------------------
(* SpecLocks: the mutexes.  Every lock scope of a handler, an exit waiter  *)
(* and a stdout reader is two kinds of step: the thread takes the mutexes  *)
(* of the scope one at a time, each when it is free, and then runs the     *)
(* scope and releases them.  MaxLockTasks sessions send GetVersion,        *)
(* GetClash, GetLogs, StartClash and StopClash; a core writes to its       *)
(* stdout and may exit.                                                    *)

LockTasks == 1..MaxLockTasks
LockCommands == {"GetVersion", "GetClash", "GetLogs", "StartClash", "StopClash"}

\* the mutexes the next lock scope of a handler takes, in the order it
\* takes them: get_clash (211), get_logs (224), the StopClash arm's clone
\* (mod.rs 336), stop_clash's scope (187-194: ClashStatus, then the child
\* handle inside it), clear_log (196), start_clash's scope (165-169),
\* update_config (176), run_core's scope (84-86)
HandlerLocksInverted(T) ==
    CASE T.pc = "call" /\ T.cmd = "GetClash" -> <<"child", "status">>
      [] T.pc = "call" /\ T.cmd = "GetLogs"  -> <<"ring">>
      [] T.pc = "read_sock" -> <<"status">>
      [] T.pc = "stop_lock" -> <<"status", "child">>
      [] T.pc = "stop_kill" -> <<"ring">>
      [] T.pc = "mark"      -> <<"status">>
      [] T.pc = "logcfg"    -> <<"logcfg">>
      [] T.pc = "record"    -> <<"status">>
      [] OTHER -> <<>>

HandlerLocks(T) ==
    CASE T.pc = "call" /\ T.cmd = "GetClash" -> <<"status">>
      [] T.pc = "call" /\ T.cmd = "GetLogs"  -> <<"ring">>
      [] T.pc = "read_sock" -> <<"status">>
      [] T.pc = "stop_lock" -> <<"status", "child">>
      [] T.pc = "stop_kill" -> <<"ring">>
      [] T.pc = "mark"      -> <<"status">>
      [] T.pc = "logcfg"    -> <<"logcfg">>
      [] T.pc = "record"    -> <<"status">>
      [] OTHER -> <<>>

\* the same for the exit waiter: the clone (105), the reset (115-117), the
\* decrement (127-128), clear_log (130), run_core's scope (84-86)
WaiterLocks(pc) ==
    CASE pc \in {"wait", "reset", "dec", "record"} -> <<"status">>
      [] pc = "spawn" -> <<"ring">>
      [] OTHER -> <<>>

\* and for the stdout reader: set_log (95)
ReaderLocks == <<"ring">>

\* the positions of need whose mutex thread th does not hold
Missing(th, need) == {i \in DOMAIN need : mutex[need[i]] # th}
FirstMissing(th, need) == CHOOSE i \in Missing(th, need) : \A j \in Missing(th, need) : i <= j

\* Mutex::lock: thread th takes the next mutex of its scope, which is free
Lock(th, need) ==
    /\ Missing(th, need) # {}
    /\ mutex[need[FirstMissing(th, need)]] = NoThread
    /\ mutex' = [mutex EXCEPT ![need[FirstMissing(th, need)]] = th]
    /\ UNCHANGED <<now, chanVars, clash_status, procs, ring, logged, log_config, files, life, mirror, task>>

\* the guards of thread th are dropped
Unlocked(S, th) ==
    [S EXCEPT !.mutex = [m \in Mutexes |-> IF S.mutex[m] = th THEN NoThread ELSE S.mutex[m]]]

\* a session hands the next request to handle_socket_command
LockRequest(h) ==
    /\ task[h].pc = "idle"
    /\ task[h].n < MaxLockRequests
    /\ \E cmd \in LockCommands :
          task' = [task EXCEPT ![h] = [NewTask(cmd, BodyA) EXCEPT !.n = task[h].n + 1]]
    /\ UNCHANGED <<now, chanVars, supVars>>

HandlerLock(h) ==
    /\ ~HandlerDone(task[h])
    /\ Lock(HandlerThread(h), HandlerLocks(task[h]))

\* HandlerScope with a get_log that takes the lines out of the ring
HandlerScopeTakesLog(h) ==
    /\ ~HandlerDone(task[h])
    /\ Missing(HandlerThread(h), HandlerLocks(task[h])) = {}
    /\ LET r == HandlerStep(Sup, task[h], now)
           S == IF HandlerDone(r.T) THEN [r.S EXCEPT !.life.from_zero = FALSE] ELSE r.S
           Z == IF task[h].pc = "call" /\ task[h].cmd = "GetLogs" THEN [S EXCEPT !.ring = <<>>] ELSE S
       IN  /\ SetSup(Unlocked(Z, HandlerThread(h)))
           /\ task' = [task EXCEPT ![h] = r.T]
    /\ UNCHANGED <<now, chanVars>>

\* the handler runs the scope it holds the mutexes of
HandlerScope(h) ==
    /\ ~HandlerDone(task[h])
    /\ Missing(HandlerThread(h), HandlerLocks(task[h])) = {}
    /\ LET r == HandlerStep(Sup, task[h], now)
           S == IF HandlerDone(r.T) THEN [r.S EXCEPT !.life.from_zero = FALSE] ELSE r.S
       IN  /\ SetSup(Unlocked(S, HandlerThread(h)))
           /\ task' = [task EXCEPT ![h] = r.T]
    /\ UNCHANGED <<now, chanVars>>

WaiterLock(p) ==
    /\ WaiterReady(Sup, p)
    /\ Lock(WaiterThread(p), WaiterLocks(procs[p].wpc))

WaiterScope(p) ==
    /\ WaiterReady(Sup, p)
    /\ Missing(WaiterThread(p), WaiterLocks(procs[p].wpc)) = {}
    /\ \E mode \in IF procs[p].wpc = "dec" /\ clash_status.restart_retry_count = 0
                   THEN OverflowModes ELSE {"wrap"} :
          SetSup(Unlocked(WaiterStep(Sup, p, now, mode), WaiterThread(p)))
    /\ UNCHANGED <<now, chanVars, task>>

\* the reader has a line of its pipe to log
ReaderReady(p) == procs[p].wpc # "none" /\ procs[p].pipe > 0

ReaderLock(p) ==
    /\ ReaderReady(p)
    /\ Lock(ReaderThread(p), ReaderLocks)

ReaderScope(p) ==
    /\ ReaderReady(p)
    /\ Missing(ReaderThread(p), ReaderLocks) = {}
    /\ SetSup(Unlocked(reader_step(Sup, p), ReaderThread(p)))
    /\ UNCHANGED <<now, chanVars, task>>

InitLocks ==
    /\ now = 0
    /\ InitChan
    /\ InitSup
    /\ task = [h \in LockTasks |-> NoTask]

NextLocks ==
    \/ \E h \in LockTasks : LockRequest(h)
    \/ \E h \in LockTasks : HandlerLock(h)
    \/ \E h \in LockTasks : HandlerScope(h)
    \/ \E h \in LockTasks : SupReturn(h)
    \/ \E p \in ProcIds : WaiterLock(p)
    \/ \E p \in ProcIds : WaiterScope(p)
    \/ \E p \in ProcIds : ReaderLock(p)
    \/ \E p \in ProcIds : ReaderScope(p)
    \/ \E p \in ProcIds : LifeCoreExits(p)
    \/ \E p \in ProcIds : CoreWrites(p)

SpecLocks == InitLocks /\ [][NextLocks]_vars

LockThreads ==
    {HandlerThread(h) : h \in LockTasks} \cup {WaiterThread(p) : p \in ProcIds}
        \cup {ReaderThread(p) : p \in ProcIds}

\* the mutexes of the lock scope thread th is at, <<>> when it is at none
Need(th) ==
    CASE th[1] = "handler" ->
            IF HandlerDone(task[th[2]]) THEN <<>> ELSE HandlerLocks(task[th[2]])
      [] th[1] = "waiter" ->
            IF WaiterReady(Sup, th[2]) THEN WaiterLocks(procs[th[2]].wpc) ELSE <<>>
      [] OTHER -> IF ReaderReady(th[2]) THEN ReaderLocks ELSE <<>>

\* the thread that holds the mutex th is waiting for; NoThread when th
\* waits for none or the mutex is free
WaitsFor(th) ==
    IF Missing(th, Need(th)) = {} THEN NoThread
    ELSE mutex[Need(th)[FirstMissing(th, Need(th))]]

\* the chain of waits that starts at th does not end within n threads
RECURSIVE WaitChain(_, _)
WaitChain(th, n) ==
    IF WaitsFor(th) = NoThread THEN FALSE
    ELSE IF n = 0 THEN TRUE
    ELSE WaitChain(WaitsFor(th), n - 1)

\* C37: no deadlock.  A mutex is held only by a thread inside the lock
\* scope that takes it, and no thread waits for a mutex in a cycle of
\* waiting threads: following who waits for whom from any thread ends at a
\* thread that holds every mutex of its scope, or at a free mutex.
C37_NoDeadlock ==
    /\ \A m \in Mutexes :
          mutex[m] # NoThread => \E i \in DOMAIN Need(mutex[m]) : Need(mutex[m])[i] = m
    /\ \A th \in LockThreads : ~WaitChain(th, Cardinality(LockThreads))

\* a handler inside stop_clash holds the supervisor mutex and the child
\* mutex, the exit waiter of a core that exited waits for the supervisor
\* mutex, and a stdout reader holds the ring mutex
C37_Witness ==
    \E h \in LockTasks : \E p, q \in ProcIds :
        /\ mutex["status"] = HandlerThread(h) /\ mutex["child"] = HandlerThread(h)
        /\ WaitsFor(WaiterThread(p)) = HandlerThread(h)
        /\ mutex["ring"] = ReaderThread(q)

-----------------------------------------------------------------------------
(* Read-only commands, checked under SpecLocks                             *)

ReadOnlyCommands == {"GetVersion", "GetClash", "GetLogs"}

\* C38: GetVersion, GetClash and GetLogs are read-only.  The step in which
\* a handler runs get_version, get_clash or get_logs and returns leaves the
\* supervisor state (auto_restart, restart_retry_count, child,
\* last_running_time, info), the processes and the log ring as they were.
C38_ReadOnly ==
    [][\A h \in LockTasks :
          (/\ task[h].pc = "call"
           /\ task[h].cmd \in ReadOnlyCommands
           /\ task'[h].pc = "ret")
          => /\ clash_status' = clash_status
             /\ procs' = procs
             /\ ring' = ring
             /\ logged' = logged
             /\ log_config' = log_config
             /\ files' = files]_vars

\* a core started by one session runs and the ring holds a line of it; the
\* other session got the lines of the ring
C38_Witness ==
    /\ Alive # {}
    /\ ring # <<>>
    /\ clash_status.info # None
    /\ \E h \in LockTasks :
          /\ task[h].pc = "ret" /\ task[h].cmd = "GetLogs"
          /\ task[h].res.ok /\ Unwrap(task[h].res.data).lines = ring

-----------------------------------------------------------------------------
(* SpecWire: send and recv on byte strings.  One end of an established     *)
(* session passes byte strings of several lengths to send, the other end   *)
(* reads the stream with recv while the clock moves.  A length is kept as  *)
(* two 16-bit halves, so that the cast of send's total_len to u32 is the   *)
(* cast of the code.                                                       *)

TAG_LEN == 16
HALF == 2^16
\* the length hi * 2^16 + lo
Wide(h, l) == [hi |-> h, lo |-> l]
WideAdd(a, k) == Wide(a.hi + ((a.lo + k) \div HALF), (a.lo + k) % HALF)
WideNat(a) == a.hi * HALF + a.lo
\* `as u32`: the low 32 bits
as_u32(a) == Wide(a.hi % HALF, a.lo)

\* a byte string: its length, and which of the strings of that length it is
Bytes(n, which) == [n |-> n, which |-> which]

\* send (68-105): full_plaintext = ts (16) + msg_id (8) + plaintext, cipher =
\* full_plaintext + tag, total_len = (24 + cipher.len()) as u32; the bytes
\* written after the 4-byte prefix are the nonce and the cipher
send_frame(ch, plaintext, t, id) ==
    LET cipher_len == WideAdd(WideAdd(plaintext.n, 16 + 8), TAG_LEN)
        written == WideAdd(cipher_len, NONCE_LEN)
    IN  [total_len |-> as_u32(written), written |-> written,
         cipher |-> encrypt(ch.key, Plain(t, id, plaintext))]

\* recv (108-121): the frame_len bytes recv takes from the stream after the
\* prefix: the whole nonce and cipher when the prefix is their length, the
\* first frame_len bytes of them, which are no ciphertext, when it is less
read_frame(w) ==
    Frame(WideNat(w.total_len), TRUE,
          IF w.total_len = w.written THEN Some(w.cipher) ELSE None)

WireInstants == {0, timestamp_window, timestamp_window + 1}
\* payload lengths: 0, 1, 2 and 2^32 - 64, 2^32 - 40, 2^32 - 39 bytes
WireLens ==
    {Wide(0, 0), Wide(0, 1), Wide(0, 2),
     Wide(HALF - 1, HALF - 64), Wide(HALF - 1, HALF - 40), Wide(HALF - 1, HALF - 39)}
WirePayloads ==
    {Bytes(Wide(0, 0), "")} \cup {Bytes(n, w) : n \in WireLens \ {Wide(0, 0)}, w \in {"a", "b"}}

\* the server end passes a payload to send
WireSend(c) ==
    /\ srv[c].st = "reading"
    /\ Len(wire[c]) < MaxWire
    /\ \E pl \in WirePayloads, id \in MsgIds :
          wire' = [wire EXCEPT ![c] = Append(@, send_frame(srv[c], pl, now, id))]
    /\ UNCHANGED <<now, service, listener, srv, cli, hist, supVars, task>>

\* the client end calls recv; a failed recv ends the client's session
WireRecv(c) ==
    /\ cli[c].st = "ready"
    /\ wire[c] # <<>>
    /\ LET w == Head(wire[c])
           r == recv(cli[c], read_frame(w), now, "wrap")
       IN  /\ cli' = [cli EXCEPT ![c].last = r.res, ![c].seen_ids = r.seen_ids,
                                 ![c].got = IF r.res = "ok" THEN r.payload ELSE NoEnv,
                                 ![c].nread = @ + 1,
                                 ![c].age = now - w.cipher.plain.ts,
                                 ![c].st = IF r.res = "ok" THEN "ready" ELSE "closed"]
           /\ wire' = [wire EXCEPT ![c] = Tail(@)]
    /\ UNCHANGED <<now, service, listener, srv, hist, supVars, task>>

NextWire ==
    \/ TickIn(WireInstants)
    \/ \E c \in ConnIds : ClientConnect(c, ClientPsks)
    \/ \E c \in ConnIds : Accept(c)
    \/ \E c \in ConnIds : handshake_server(c)
    \/ \E c \in ConnIds : handshake_client(c)
    \/ \E c \in ConnIds : WireSend(c)
    \/ \E c \in ConnIds : WireRecv(c)

SpecWire == Init /\ [][NextWire]_vars

\* C39: on an established session whose two ends hold the same key, every
\* payload passed to send is returned byte for byte by the next recv on the
\* other end when it is read within the window (and its random message id
\* is one the receiver has not seen): each send writes exactly one frame
\* whose length prefix is 24 plus the ciphertext length, and recv returns
\* the plaintext without its timestamp and message id.
C39_SendRecvRoundTrip ==
    [][\A c \in ConnIds :
          /\ wire'[c] # wire[c] /\ Len(wire'[c]) > Len(wire[c])
                => /\ Len(wire'[c]) = Len(wire[c]) + 1
                   /\ LET w == wire'[c][Len(wire'[c])] IN
                        w.total_len = WideAdd(WideAdd(w.cipher.plain.payload.n, 16 + 8 + TAG_LEN), NONCE_LEN)
          /\ (/\ cli'[c].nread = cli[c].nread + 1
              /\ wire[c] # <<>>
              /\ Head(wire[c]).cipher.key = cli[c].key
              /\ now - Head(wire[c]).cipher.plain.ts <= timestamp_window
              /\ Head(wire[c]).cipher.plain.msg_id \notin cli[c].seen_ids)
                => /\ cli'[c].last = "ok"
                   /\ cli'[c].got = Head(wire[c]).cipher.plain.payload]_vars

-----------------------------------------------------------------------------
(* SpecMirror: the stdout reader and the service logger.  Sessions send    *)
(* StartClash and StopClash; a running core writes lines to its stdout;    *)
(* the reader moves each line to the ring and hands it to wrap_mihomo_log. *)
(* The text of a line is drawn when the reader takes it from the pipe.     *)

MirrorCommands == {"StartClash", "StopClash"}
\* the word after level=
MirrorTokens == {"error", "warning", "info", "debug", "fatal", "warn"}
StdoutLines ==
    {PlainText, <<"level", "=", " ", "msg">>, <<"loglevel", "=", "error">>}
        \cup {<<"level", "=", tok, " ", "msg">> : tok \in MirrorTokens}

MirrorRequest(h) ==
    /\ task[h].pc = "idle"
    /\ task[h].n < MaxLockRequests
    /\ \E cmd \in MirrorCommands :
          task' = [task EXCEPT ![h] = [NewTask(cmd, BodyA) EXCEPT !.n = task[h].n + 1]]
    /\ UNCHANGED <<now, chanVars, supVars>>

\* the reader thread of process p reads a line and logs it
MirrorRead(p) ==
    /\ procs[p].wpc # "none"
    /\ procs[p].pipe > 0
    /\ \E text \in StdoutLines :
          SetSup(reader_line(Sup, p,
                             TextLine(p, procs[p].nout - procs[p].pipe + 1, text), text))
    /\ UNCHANGED <<now, chanVars, task>>

NextMirror ==
    \/ \E h \in TaskIds : MirrorRequest(h)
    \/ \E h \in TaskIds : SupHandler(h)
    \/ \E h \in TaskIds : SupReturn(h)
    \/ \E p \in ProcIds : CoreWrites(p)
    \/ \E p \in ProcIds : MirrorRead(p)

SpecMirror == Init /\ [][NextMirror]_vars

\* C40: every stdout line of the core is appended to the log ring and
\* mirrored to the service logger at the level named by its level= token
\* when that token is error, warning, info or debug, and at info in every
\* other case (no level= token, or a token outside those four).
C40_LinesMirroredAtLevel ==
    [][\A p \in ProcIds :
          procs'[p].pipe < procs[p].pipe /\ procs'[p].nout = procs[p].nout
          => /\ ring' # <<>>
             /\ ring'[Len(ring')].p = p
             /\ ring'[Len(ring')].k = procs[p].nout - procs[p].pipe + 1
             /\ LET tok == level_token(ring'[Len(ring')].text) IN
                  mirror' = Some(CASE tok = Some("error")   -> "error"
                                   [] tok = Some("warning") -> "warn"
                                   [] tok = Some("info")    -> "info"
                                   [] tok = Some("debug")   -> "debug"
                                   [] OTHER                 -> "info")]_vars

=============================================================================
